---- MODULE Spec2Model ----
(***************************************************************************)
(* Verification model of the ado-mcp entity-tool framework:                *)
(*   - the error classifier (api/utils: createError, handleApiError),      *)
(*   - the entity tool envelope (tools/factory.ts: EntityTool.execute),    *)
(*     the tool registry and the CallTool request handler,                 *)
(*   - the transport client's retry loop (ADOApiClient.executeWithRetry).  *)
(*                                                                         *)
(* The specifications of the module: Spec (one tool invocation at a time  *)
(* through the protocol boundary), SpecRetry and SpecRetryLive (one        *)
(* transport call), SpecClassify (handleApiError applied to one raw        *)
(* error), SpecPage (paging and the token codec), SpecRegistry (the tool   *)
(* registry), SpecContract (construction and definition of an entity       *)
(* tool) and SpecConcurrent (invocations in flight at the same time).      *)
(***************************************************************************)
EXTENDS Integers, Sequences, FiniteSets, TLC

VARIABLES
    \* ---- error classifier (SpecClassify)
    cPc,         \* "start" | "done"
    cIn,         \* [error, source, operation]: the arguments of handleApiError
    cOut,        \* the completion of handleApiError
    \* ---- tool invocation (Spec)
    pc,          \* position of the invocation's call chain
    entry,       \* "callTool" (RequestHandlers) | "executeTool" (ToolRegistry)
    toolName,    \* request.params.name
    args,        \* request.params.arguments
    validParams, \* params handed to the operation handler
    handlerCalls,\* sequence of [tool, operation, params]: handlers invoked
    upstream,    \* how the handler's upstream calls settled
    sent,        \* the request the handler sent upstream (or NothingSent)
    execOut,     \* completion of EntityTool.execute (or ToolPending)
    finalOut,    \* completion seen by the protocol caller (or ToolPending)
    errorLog,    \* console.error entries written by createError
    \* ---- transport retry (SpecRetry)
    rPc,         \* "idle" | "attempting" | "unsettled" | "waiting" | "done"
    retryCfg,    \* [maxRetries, delayMs, backoffFactor]: this.config.retry
    sdkCodes,    \* whether ErrorCode.Unauthorized / ErrorCode.NotFound exist
    attempt,     \* loop variable of executeWithRetry
    delay,       \* loop variable of executeWithRetry
    lastError,   \* loop variable of executeWithRetry
    attempts,    \* sequence of the errors/successes of the attempts made
    delays,      \* sequence of the delays waited (setTimeout arguments)
    rOut,        \* completion of the transport call (or RetryPending)
    rLog,        \* console lines written by the transport client
    \* ---- paging through a list operation (SpecPage)
    pPc,         \* "idle" | "paged"
    pList,       \* the upstream collection
    pParams,     \* [maxResults, continuationToken] of the last call
    pNorm,       \* what normalizePaginationParams returned for it
    pResult,     \* the result of the last call
    pPages,      \* the items of all pages so far, concatenated
    pCalls,      \* number of calls made
    pFromStart,  \* the session's first call carried no token
    tPc,         \* "idle" | "done": a call of a token decoding function
    tIn,         \* [fn, token] of that call
    tOut,        \* its completion
    \* ---- tool registry (SpecRegistry)
    regTools,    \* this.tools: Map name -> tool
    regDefs,     \* this.toolDefinitions: Map name -> definition
    regCalls,    \* the tools passed to registerTool so far, in order
    regPrev,     \* this.tools before the last registerTool call
    regOut,      \* "none" | "return" | "throw": how that call ended
    regListed,   \* what the last ListTools request returned, if still current
    \* ---- construction and definition of an entity tool (SpecContract)
    etPc,        \* "idle" | "constructing" | "constructed"
    etTool,      \* the tool: name, operations, schemas, operationDescriptions
    etRegs,      \* the registerOperation calls made so far, in order
    etDef,       \* what getDefinition() returned, if called
    \* ---- concurrent invocations (SpecConcurrent)
    iPc,         \* per invocation: "idle" | "handler" | "attempting" | "waiting" | "done"
    iTask,       \* per invocation: what was called, with which arguments
    iLocals,     \* per activation record: the locals of the call
    iSeen,       \* per invocation: the upstream answers it received
    iWaits,      \* per invocation: the delays it waited
    iOut,        \* per invocation: its completion
    sharedRegistry, \* the registry's Maps, shared by all invocations
    sharedRetry  \* the API client's retry configuration, shared

classifyVars == <<cPc, cIn, cOut>>
toolVars == <<pc, entry, toolName, args, validParams, handlerCalls, upstream, sent,
              execOut, finalOut, errorLog>>
retryVars == <<rPc, retryCfg, sdkCodes, attempt, delay, lastError, attempts,
               delays, rOut, rLog>>
pageVars == <<pPc, pList, pParams, pNorm, pResult, pPages, pCalls, pFromStart,
              tPc, tIn, tOut>>
registryVars == <<regTools, regDefs, regCalls, regPrev, regOut, regListed>>
contractVars == <<etPc, etTool, etRegs, etDef>>
concurrentVars == <<iPc, iTask, iLocals, iSeen, iWaits, iOut, sharedRegistry,
                    sharedRetry>>
vars == <<classifyVars, toolVars, retryVars, pageVars, registryVars, contractVars,
          concurrentVars>>

\* what the actions of each part leave alone
classifyFrame ==
    <<toolVars, retryVars, pageVars, registryVars, contractVars, concurrentVars>>
retryFrame ==
    <<classifyVars, toolVars, pageVars, registryVars, contractVars, concurrentVars>>
toolFrame ==
    <<classifyVars, retryVars, pageVars, registryVars, contractVars, concurrentVars>>
pageFrame ==
    <<classifyVars, toolVars, retryVars, registryVars, contractVars, concurrentVars>>
registryFrame ==
    <<classifyVars, toolVars, retryVars, pageVars, contractVars, concurrentVars>>
concurrentFrame ==
    <<classifyVars, toolVars, retryVars, pageVars, registryVars, contractVars>>
contractFrame ==
    <<classifyVars, toolVars, retryVars, pageVars, registryVars, concurrentVars>>

(***************************************************************************)
(* Strings built by template literals are sequences of string fragments;   *)
(* the empty string is the empty sequence.  An optional property is a      *)
(* sequence of length 0 (absent) or 1 (present).                           *)
(***************************************************************************)
None == <<>>
Some(x) == <<x>>
IsSome(o) == o # <<>>
Get(o) == o[1]

RECURSIVE Join(_, _)
\* Array.prototype.join over an array of strings
Join(names, sep) ==
    IF names = <<>> THEN <<>>
    ELSE IF Len(names) = 1 THEN <<names[1]>>
    ELSE <<names[1], sep>> \o Join(Tail(names), sep)

\* s is a contiguous part of t
Contains(t, s) ==
    \E i \in 0..(Len(t) - Len(s)) : SubSeq(t, i + 1, i + Len(s)) = s

(***************************************************************************)
(* Error values.  cls is the JavaScript class / type of a thrown value.    *)
(***************************************************************************)
ErrorClasses == {"Error", "TypeError", "McpError", "ZodError"}

ErrVal(cls, code, statusCode, status, message, bodyMessage, text, issues) ==
    [cls |-> cls, code |-> code, statusCode |-> statusCode, status |-> status,
     message |-> message, bodyMessage |-> bodyMessage, text |-> text,
     issues |-> issues]

\* new McpError(code, message); the SDK's own rendering of the code in the
\* message is outside the repository and not modelled
McpError(code, message) ==
    ErrVal("McpError", code, None, None, Some(message), None, <<>>, <<>>)

\* the TypeError the runtime raises
TypeError(message) ==
    ErrVal("TypeError", "", None, None, Some(message), None, <<>>, <<>>)

ZodError(issues) ==
    ErrVal("ZodError", "", None, None, Some(<<"[zod issues]">>), None, <<>>, issues)

NullValue == ErrVal("null", "", None, None, None, None, <<>>, <<>>)
UndefinedValue == ErrVal("undefined", "", None, None, None, None, <<>>, <<>>)
StringValue(t) == ErrVal("string", "", None, None, None, None, t, <<>>)

IsErrorInstance(e) == e.cls \in ErrorClasses

\* String(error)
StringOf(e) ==
    CASE e.cls = "null" -> <<"null">>
      [] e.cls = "undefined" -> <<"undefined">>
      [] e.cls = "string" -> e.text
      [] e.cls = "object" -> <<"[object Object]">>
      [] OTHER -> <<e.cls, ": ">> \o Get(e.message)

NoError == ErrVal("none", "", None, None, None, None, <<>>, <<>>)

(***************************************************************************)
(* Error classifier: createUserFriendlyMessage, createError, handleApiError*)
(***************************************************************************)
createUserFriendlyMessage(message, context) ==
    LET base ==
          CASE context.category = "authentication" ->
                 <<"Authentication failed: ">> \o message
                    \o <<". Please check your credentials.">>
            [] context.category = "authorization" ->
                 <<"Authorization failed: ">> \o message
                    \o <<". You don't have permission to perform this operation.">>
            [] context.category = "not_found" ->
                 <<"Resource not found: ">> \o message
                    \o <<". Please check that the requested resource exists.">>
            [] context.category = "validation" ->
                 <<"Validation failed: ">> \o message
                    \o <<". Please check your input parameters.">>
            [] context.category = "rate_limit" ->
                 <<"Rate limit exceeded: ">> \o message
                    \o <<". Please try again later.">>
            [] context.category = "service_unavailable" ->
                 <<"Service unavailable: ">> \o message
                    \o <<". Please try again later.">>
            [] OTHER ->
                 IF context.operation # ""
                 THEN <<"Error during ", context.operation, ": ">> \o message
                 ELSE message
    IN  IF context.troubleshooting # <<>>
        THEN base \o <<" ">> \o context.troubleshooting
        ELSE base

\* createError: one console.error entry and the McpError it returns
createError(code, message, context) ==
    [threw |-> FALSE,
     err |-> McpError(code, createUserFriendlyMessage(message, context)),
     log |-> <<[source |-> context.source, operation |-> context.operation,
                code |-> code, message |-> message,
                category |-> context.category]>>]

ClassifyStatusOffByOne(statusCode) ==
    IF statusCode = 401 THEN [category |-> "authentication", code |-> "InvalidRequest"]
    ELSE IF statusCode = 403 THEN [category |-> "authorization", code |-> "InvalidRequest"]
    ELSE IF statusCode = 404 THEN [category |-> "not_found", code |-> "InvalidRequest"]
    ELSE IF statusCode = 400 THEN [category |-> "validation", code |-> "InvalidParams"]
    ELSE IF statusCode = 429 THEN [category |-> "rate_limit", code |-> "InternalError"]
    ELSE IF statusCode > 500 THEN [category |-> "service_unavailable", code |-> "InternalError"]
    ELSE [category |-> "unknown", code |-> "InternalError"]

\* the if-chain over a truthy statusCode
ClassifyStatus(statusCode) ==
    IF statusCode = 401 THEN [category |-> "authentication", code |-> "InvalidRequest"]
    ELSE IF statusCode = 403 THEN [category |-> "authorization", code |-> "InvalidRequest"]
    ELSE IF statusCode = 404 THEN [category |-> "not_found", code |-> "InvalidRequest"]
    ELSE IF statusCode = 400 THEN [category |-> "validation", code |-> "InvalidParams"]
    ELSE IF statusCode = 429 THEN [category |-> "rate_limit", code |-> "InternalError"]
    ELSE IF statusCode >= 500 THEN [category |-> "service_unavailable", code |-> "InternalError"]
    ELSE [category |-> "unknown", code |-> "InternalError"]

\* error.statusCode || error.status  (0 is falsy)
StatusCodeOf(error) ==
    IF IsSome(error.statusCode) /\ Get(error.statusCode) # 0
    THEN error.statusCode
    ELSE error.status

\* the message handleApiError extracts
ExtractMessage(error) ==
    LET initial == IF IsErrorInstance(error) THEN Get(error.message)
                   ELSE StringOf(error)
    IN  IF IsSome(error.message) /\ Get(error.message) # <<>>
        THEN Get(error.message)
        ELSE IF IsSome(error.bodyMessage) /\ Get(error.bodyMessage) # <<>>
        THEN Get(error.bodyMessage)
        ELSE initial

handleApiError(error, source, operation) ==
    IF error.cls \in {"null", "undefined"}
    THEN \* reading error.statusCode of null / undefined
         [threw |-> TRUE,
          err |-> TypeError(<<"Cannot read properties of ", error.cls,
                              " (reading 'statusCode')">>),
          log |-> <<>>]
    ELSE LET statusCode == StatusCodeOf(error)
             cls == IF IsSome(statusCode) /\ Get(statusCode) # 0
                    THEN ClassifyStatus(Get(statusCode))
                    ELSE [category |-> "unknown", code |-> "InternalError"]
         IN  createError(cls.code, ExtractMessage(error),
                         [category |-> cls.category, source |-> source,
                          operation |-> operation, troubleshooting |-> <<>>])

NoCompletion == [threw |-> FALSE, err |-> NoError, log |-> <<>>]

(***************************************************************************)
(* Transport client: ADOApiClient.request / executeWithRetry               *)
(***************************************************************************)
DefaultMaxRetries == 3
DefaultDelayMs == 1000
DefaultBackoffFactor == 2

MaxRetriesBound == 3
MaxBackoffFactor == 2

\* this.config.retry after the constructor's merge: any numbers the
\* configuration supplies (environment variables are parsed, not validated)
RetryConfigs ==
    {[maxRetries |-> m, delayMs |-> d, backoffFactor |-> f] :
        m \in 0..MaxRetriesBound,
        d \in {-1, 0, DefaultDelayMs},
        f \in (-1)..MaxBackoffFactor}

\* what axiosInstance.request(config) can do in one attempt
HttpStatuses == {400, 401, 403, 404, 409, 429, 503}
AttemptOutcomes ==
    {[kind |-> "success", status |-> None, dataMessage |-> None,
      message |-> <<>>]}
    \cup {[kind |-> "http", status |-> Some(st), dataMessage |-> dm,
           message |-> <<"Request failed with status code ", ToString(st)>>] :
            st \in HttpStatuses, dm \in {Some(<<"upstream message">>)}}
    \cup {[kind |-> "network", status |-> None, dataMessage |-> None,
           message |-> <<"socket hang up">>],
          [kind |-> "other", status |-> None, dataMessage |-> None,
           message |-> <<"unexpected">>]}

\* ErrorCode.<name> as the program reads it.  The SDK's ErrorCode enum is
\* outside the repository; where it declares no member Unauthorized or
\* NotFound the member access yields undefined.
ErrorCodeOf(name) ==
    IF sdkCodes = "undeclared" /\ name \in {"Unauthorized", "NotFound"}
    THEN "undefined"
    ELSE name

RequestErrorCodeAll4xx(status) ==
    IF status \in {Some(401), Some(403)} THEN ErrorCodeOf("Unauthorized")
    ELSE IF status = Some(404) THEN ErrorCodeOf("NotFound")
    ELSE IF IsSome(status) /\ Get(status) >= 400 /\ Get(status) < 500
         THEN "InvalidRequest"
    ELSE "InternalError"

\* the error code request() picks for an axios error with this status
RequestErrorCode(status) ==
    IF status \in {Some(401), Some(403)} THEN ErrorCodeOf("Unauthorized")
    ELSE IF status = Some(404) THEN ErrorCodeOf("NotFound")
    ELSE IF status = Some(400) THEN "InvalidRequest"
    ELSE "InternalError"

\* the catch block of the closure request() hands to executeWithRetry
RequestError(outcome) ==
    IF outcome.kind \in {"http", "network"}
    THEN LET detail == IF IsSome(outcome.dataMessage)
                             /\ Get(outcome.dataMessage) # <<>>
                       THEN Get(outcome.dataMessage) ELSE outcome.message
             status == outcome.status
         IN  IF status \in {Some(401), Some(403)}
             THEN McpError(RequestErrorCode(status),
                           <<"Authentication failed: ">> \o detail)
             ELSE IF status = Some(404)
             THEN McpError(RequestErrorCode(status),
                           <<"Resource not found: ">> \o detail)
             ELSE IF status = Some(400)
             THEN McpError(RequestErrorCode(status), <<"Bad request: ">> \o detail)
             ELSE McpError(RequestErrorCode(status),
                           <<"Azure DevOps API error (",
                             IF IsSome(status) THEN ToString(Get(status))
                             ELSE "undefined", "): ">> \o detail)
    ELSE McpError("InternalError", <<"Unexpected error: ">> \o outcome.message)

IsNoRetryErrorBadRequestOnly(error) ==
    error.cls = "McpError" /\ error.code = "InvalidRequest"

\* "Don't retry on 400 (bad request) or 401/403 (unauthorized)"
IsNoRetryError(error) ==
    /\ error.cls = "McpError"
    /\ \/ error.code = "InvalidRequest"
       \/ error.code = ErrorCodeOf("Unauthorized")

IsLastAttemptEarly(n, maxRetries) == n + 1 >= maxRetries

\* attempt === maxRetries
IsLastAttempt(n, maxRetries) == n = maxRetries

NextDelayAdditive(d, backoffFactor) == d + backoffFactor

\* delay *= backoffFactor
NextDelay(d, backoffFactor) == d * backoffFactor

RequestContext == <<"GET", " ", "/projects">>

\* the error thrown after the loop
ExhaustedError(maxRetries, last) ==
    McpError("InternalError",
             <<"Failed to ">> \o RequestContext
                \o <<" after ", ToString(maxRetries), " attempts: ">>
                \o (IF last = NoError THEN <<"undefined">> ELSE Get(last.message)))

\* this.config.credentials.pat
AccessToken == "[personal access token]"

\* the Authorization header the constructor gives the axios instance
AuthorizationHeader == <<"Basic ", "base64(:", AccessToken, ")">>

\* the request interceptor: method and URL, and the config with
\* headers.Authorization overwritten in a copy
RequestLogLine ==
    <<"Request: ">> \o RequestContext
       \o <<" { headers: { Authorization: '", "Basic ***", "' } }">>

\* the response interceptor on success
ResponseLogLine == <<"Response: ", "200", " ", RequestContext[3]>>

\* the response interceptor on failure: console.error('Response error:',
\* error) prints the error object; an AxiosError carries the request config
\* it was sent with, headers included
ResponseErrorLogLine(outcome) ==
    <<"Response error: ">> \o outcome.message
       \o (IF outcome.kind \in {"http", "network"}
           THEN <<" { config: { headers: { Authorization: '">>
                   \o AuthorizationHeader \o <<"' } } }">>
           ELSE <<>>)

\* console.warn before the wait
RetryWarnLine(n, d) ==
    <<"Attempt ", ToString(n), " failed, retrying in ", ToString(d), "ms...">>

RetryPending == [kind |-> "pending", err |-> NoError]

(***************************************************************************)
(* JSON values carried by tool arguments.  t is the JavaScript type; an    *)
(* object's properties are in f (a property holding JUndef is absent).     *)
(***************************************************************************)
NoProps == [k \in {} |-> 0]
JUndef == [t |-> "undefined", s |-> "", n |-> 0, f |-> NoProps]
JNull == [t |-> "null", s |-> "", n |-> 0, f |-> NoProps]
JStr(x) == [t |-> "string", s |-> x, n |-> 0, f |-> NoProps]
JNum(k) == [t |-> "number", s |-> "", n |-> k, f |-> NoProps]
JBool(b) == [t |-> "boolean", s |-> "", n |-> IF b THEN 1 ELSE 0, f |-> NoProps]
JArr == [t |-> "array", s |-> "", n |-> 0, f |-> NoProps]
JObj(props) == [t |-> "object", s |-> "", n |-> 0, f |-> props]

\* the values the || operator replaces
Falsy(v) ==
    \/ v.t \in {"undefined", "null"}
    \/ v.t = "number" /\ v.n = 0
    \/ v.t = "string" /\ v.s = ""
    \/ v.t = "boolean" /\ v.n = 0

HasProp(obj, k) == k \in DOMAIN obj.f /\ obj.f[k] # JUndef

\* value.k for a value that is neither null nor undefined
PropertyOf(value, k) ==
    IF value.t = "object" /\ k \in DOMAIN value.f THEN value.f[k] ELSE JUndef

(***************************************************************************)
(* Entity tools: the operations each constructor registers, in order, and  *)
(* the zod schema of each (all are z.object({...}).strict()).              *)
(***************************************************************************)
Field(name, type, optional, values) ==
    [name |-> name, type |-> type, optional |-> optional, values |-> values]

ContinuationTokenField == Field("continuationToken", "string", TRUE, {})
MaxResultsField == Field("maxResults", "number", TRUE, {})
ProjectIdField == Field("projectId", "string", FALSE, {})
RepositoryIdField == Field("repositoryId", "string", FALSE, {})

RegisteredTools ==
    <<"projects", "repositories", "workItems", "pullRequests", "pipelines">>

\* Object.keys(this.operations): registration order
OperationNames(tool) ==
    CASE tool = "projects" -> <<"list", "get">>
      [] tool = "repositories" -> <<"list", "get", "listBranches">>
      [] tool = "workItems" -> <<"get", "create">>
      [] tool = "pullRequests" -> <<"list", "get">>
      [] tool = "pipelines" -> <<"list", "get">>
      [] OTHER -> <<>>

Range(seq) == {seq[i] : i \in DOMAIN seq}

Schema(tool, operation) ==
    CASE tool = "projects" /\ operation = "list" ->
           <<ContinuationTokenField, MaxResultsField>>
      [] tool = "projects" /\ operation = "get" ->
           <<ProjectIdField, Field("includeCapabilities", "boolean", TRUE, {})>>
      [] tool = "repositories" /\ operation = "list" ->
           <<ProjectIdField, ContinuationTokenField, MaxResultsField>>
      [] tool = "repositories" /\ operation = "get" ->
           <<ProjectIdField, RepositoryIdField>>
      [] tool = "repositories" /\ operation = "listBranches" ->
           <<ProjectIdField, RepositoryIdField, ContinuationTokenField,
             MaxResultsField>>
      [] tool = "workItems" /\ operation = "get" ->
           <<Field("id", "number", FALSE, {}),
             Field("expand", "enum", TRUE,
                   {"None", "Relations", "Fields", "Links", "All"})>>
      [] tool = "workItems" /\ operation = "create" ->
           <<ProjectIdField, Field("type", "string", FALSE, {}),
             Field("title", "string", FALSE, {}),
             Field("description", "string", TRUE, {}),
             Field("assignedTo", "string", TRUE, {})>>
      [] tool = "pullRequests" /\ operation = "list" ->
           <<ProjectIdField, RepositoryIdField,
             Field("status", "enum", TRUE,
                   {"Active", "Abandoned", "Completed", "All"}),
             ContinuationTokenField, MaxResultsField>>
      [] tool = "pullRequests" /\ operation = "get" ->
           <<ProjectIdField, RepositoryIdField,
             Field("pullRequestId", "number", FALSE, {})>>
      [] tool = "pipelines" /\ operation = "list" ->
           <<ProjectIdField, ContinuationTokenField, MaxResultsField>>
      [] tool = "pipelines" /\ operation = "get" ->
           <<ProjectIdField, Field("pipelineId", "number", FALSE, {})>>
      [] OTHER -> <<>>

\* the class name and method name a handler passes to handleApiError, and the
\* context of the ADOApiClient getter it awaits first
HandlerContext(tool, operation) ==
    CASE tool = "projects" /\ operation = "list" ->
           <<"ProjectsTool", "listProjects", "Failed to get Core API client">>
      [] tool = "projects" /\ operation = "get" ->
           <<"ProjectsTool", "getProject", "Failed to get Core API client">>
      [] tool = "repositories" /\ operation = "list" ->
           <<"RepositoriesTool", "listRepositories", "Failed to get Git API client">>
      [] tool = "repositories" /\ operation = "get" ->
           <<"RepositoriesTool", "getRepository", "Failed to get Git API client">>
      [] tool = "repositories" /\ operation = "listBranches" ->
           <<"RepositoriesTool", "listBranches", "Failed to get Git API client">>
      [] tool = "workItems" /\ operation = "get" ->
           <<"WorkItemsTool", "getWorkItem",
             "Failed to get Work Item Tracking API client">>
      [] tool = "workItems" /\ operation = "create" ->
           <<"WorkItemsTool", "createWorkItem",
             "Failed to get Work Item Tracking API client">>
      [] tool = "pullRequests" /\ operation = "list" ->
           <<"PullRequestsTool", "listPullRequests", "Failed to get Git API client">>
      [] tool = "pullRequests" /\ operation = "get" ->
           <<"PullRequestsTool", "getPullRequest", "Failed to get Git API client">>
      [] tool = "pipelines" /\ operation = "list" ->
           <<"PipelinesTool", "listPipelines", "Failed to get Pipeline API client">>
      [] OTHER ->
           <<"PipelinesTool", "getPipeline", "Failed to get Pipeline API client">>

\* property names every object literal inherits from Object.prototype:
\* this.operations and this.schemas are created as {}
ObjectPrototypeKeys ==
    {"constructor", "toString", "hasOwnProperty", "__proto__"}

\* truthiness of this.operations[operation]
OperationsLookup(tool, operation) ==
    \/ operation \in Range(OperationNames(tool))
    \/ operation \in ObjectPrototypeKeys

(***************************************************************************)
(* zod: what schema.parse reports (the issues of the ZodError it throws;   *)
(* none when the value parses).                                            *)
(***************************************************************************)
Issue(path, code, message) == [path |-> path, code |-> code, message |-> message]

\* the issue a z.string() / z.number() / z.boolean() / z.enum() field raises
FieldIssues(field, obj) ==
    IF ~HasProp(obj, field.name)
    THEN IF field.optional THEN <<>>
         ELSE <<Issue(<<field.name>>, "invalid_type", "Required")>>
    ELSE LET v == obj.f[field.name]
         IN  IF field.type = "enum"
             THEN IF v.t # "string"
                  THEN <<Issue(<<field.name>>, "invalid_type", "Expected enum value")>>
                  ELSE IF v.s \notin field.values
                  THEN <<Issue(<<field.name>>, "invalid_enum_value",
                               "Invalid enum value")>>
                  ELSE <<>>
             ELSE IF v.t # field.type
                  THEN <<Issue(<<field.name>>, "invalid_type",
                               "Expected " \o field.type)>>
                  ELSE <<>>

RECURSIVE ShapeIssues(_, _)
ShapeIssues(schema, obj) ==
    IF schema = <<>> THEN <<>>
    ELSE FieldIssues(Head(schema), obj) \o ShapeIssues(Tail(schema), obj)

FieldNames(schema) == {schema[i].name : i \in DOMAIN schema}

UnknownKeys(schema, obj) ==
    {k \in DOMAIN obj.f : obj.f[k] # JUndef} \ FieldNames(schema)

ZodObjectIssuesUnknownKeysAllowed(schema, value) ==
    IF value.t # "object"
    THEN <<Issue(<<>>, "invalid_type", "Expected object")>>
    ELSE ShapeIssues(schema, value)

\* z.object(shape).strict().parse(value)
ZodStrictObjectIssues(schema, value) ==
    IF value.t # "object"
    THEN <<Issue(<<>>, "invalid_type", "Expected object")>>
    ELSE ShapeIssues(schema, value)
           \o (IF UnknownKeys(schema, value) # {}
               THEN <<Issue(<<>>, "unrecognized_keys", "Unrecognized key(s) in object")>>
               ELSE <<>>)

\* z.object({operation: z.string()}).passthrough().parse(args)
BaseSchemaIssues(a) ==
    IF a.t # "object"
    THEN <<Issue(<<>>, "invalid_type", "Expected object")>>
    ELSE IF a.operation.t = "undefined"
    THEN <<Issue(<<"operation">>, "invalid_type", "Required")>>
    ELSE IF a.operation.t # "string"
    THEN <<Issue(<<"operation">>, "invalid_type", "Expected string")>>
    ELSE <<>>

(***************************************************************************)
(* Completions of a tool call: a returned result object or a thrown error. *)
(***************************************************************************)
ToolPending ==
    [kind |-> "pending", isError |-> FALSE, text |-> <<>>, details |-> <<>>,
     err |-> NoError]
ToolResult(isError, text, details) ==
    [kind |-> "result", isError |-> isError, text |-> text, details |-> details,
     err |-> NoError]
ToolThrow(error) ==
    [kind |-> "throw", isError |-> FALSE, text |-> <<>>, details |-> <<>>,
     err |-> error]

\* error instanceof Error ? error.message : String(error)
MessageOrString(error) ==
    IF IsErrorInstance(error) THEN Get(error.message) ELSE StringOf(error)

(***************************************************************************)
(* EntityTool.execute                                                      *)
(***************************************************************************)
\* (args as any)[paramsKey] || {}
OperationParams(a) == IF Falsy(a.params) THEN JObj(NoProps) ELSE a.params

\* the try block up to the await of the handler: either an error is thrown
\* or the handler is called with the validated params
ExecuteTry(tool, a) ==
    IF BaseSchemaIssues(a) # <<>>
    THEN [stage |-> "threw", error |-> ZodError(BaseSchemaIssues(a)),
          log |-> <<>>, params |-> JUndef]
    ELSE LET operation == a.operation.s
         IN  IF ~OperationsLookup(tool, operation)
             THEN LET c == createError("InvalidParams",
                               <<"Invalid operation: ", operation>>,
                               [category |-> "validation", source |-> tool,
                                operation |-> "execute",
                                troubleshooting |->
                                   <<"Available operations: ">>
                                      \o Join(OperationNames(tool), ", ")])
                  IN  [stage |-> "threw", error |-> c.err, log |-> c.log,
                       params |-> JUndef]
             ELSE IF operation \notin Range(OperationNames(tool))
             THEN \* this.schemas[operation] is an inherited property
                  [stage |-> "threw",
                   error |-> TypeError(<<"schema.parse is not a function">>),
                   log |-> <<>>, params |-> JUndef]
             ELSE LET issues == ZodStrictObjectIssues(Schema(tool, operation),
                                                      OperationParams(a))
                  IN  IF issues # <<>>
                      THEN [stage |-> "threw", error |-> ZodError(issues),
                            log |-> <<>>, params |-> JUndef]
                      ELSE [stage |-> "await", error |-> NoError, log |-> <<>>,
                            params |-> OperationParams(a)]

\* the operation name the catch block puts in the classifier's context
CaughtOperationName(a) ==
    IF a.t = "object" /\ a.operation.t = "string" THEN a.operation.s
    ELSE IF a.t = "object" /\ a.operation.t # "undefined" THEN "[non-string]"
    ELSE "unknown"

\* the catch block of execute
ExecuteCatch(tool, a, error) ==
    IF error.cls = "ZodError"
    THEN [out |-> ToolResult(TRUE,
                    <<"Invalid parameters: ">> \o Get(error.message),
                    [i \in DOMAIN error.issues |->
                        [path |-> Join(error.issues[i].path, "."),
                         message |-> error.issues[i].message,
                         code |-> error.issues[i].code]]),
          log |-> <<>>]
    ELSE IF error.cls = "McpError"
    THEN [out |-> ToolThrow(error), log |-> <<>>]
    ELSE LET h == handleApiError(error, tool, "execute_" \o CaughtOperationName(a))
         IN  [out |-> ToolThrow(h.err), log |-> h.log]

(***************************************************************************)
(* Operation handlers: await the API client getter, await the upstream     *)
(* call, shape the response; every failure goes through handleApiError.    *)
(***************************************************************************)
CreateWorkItemDocumentAssigneeFirst(params) ==
    <<[op |-> "add", path |-> "/fields/System.Title", value |-> params.f["title"]]>>
    \o (IF ~Falsy(PropertyOf(params, "assignedTo"))
        THEN <<[op |-> "add", path |-> "/fields/System.AssignedTo",
                value |-> params.f["assignedTo"]]>>
        ELSE <<>>)
    \o (IF ~Falsy(PropertyOf(params, "description"))
        THEN <<[op |-> "add", path |-> "/fields/System.Description",
                value |-> params.f["description"]]>>
        ELSE <<>>)

\* the JSON patch document createWorkItem builds
CreateWorkItemDocument(params) ==
    <<[op |-> "add", path |-> "/fields/System.Title", value |-> params.f["title"]]>>
    \o (IF ~Falsy(PropertyOf(params, "description"))
        THEN <<[op |-> "add", path |-> "/fields/System.Description",
                value |-> params.f["description"]]>>
        ELSE <<>>)
    \o (IF ~Falsy(PropertyOf(params, "assignedTo"))
        THEN <<[op |-> "add", path |-> "/fields/System.AssignedTo",
                value |-> params.f["assignedTo"]]>>
        ELSE <<>>)

NothingSent == [handler |-> "", document |-> <<>>]

\* what the handler passes to the upstream API once it holds the API client
UpstreamRequest(tool, operation, params) ==
    [handler |-> HandlerContext(tool, operation)[2],
     document |-> IF tool = "workItems" /\ operation = "create"
                  THEN CreateWorkItemDocument(params) ELSE <<>>]

Upstream(kind, error, data) == [kind |-> kind, err |-> error, data |-> data]
NoUpstream == Upstream("none", NoError, "")

Handler(tool, operation, params, up) ==
    LET ctx == HandlerContext(tool, operation)
    IN  IF up.kind = "apiClient"
        THEN \* the getter's catch: throw this.handleError(error, context)
             LET h1 == handleApiError(up.err, "ADOApiClient", ctx[3])
                 h2 == handleApiError(h1.err, ctx[1], ctx[2])
             IN  [ok |-> FALSE, error |-> h2.err, log |-> h1.log \o h2.log]
        ELSE IF up.kind = "reject"
        THEN LET h == handleApiError(up.err, ctx[1], ctx[2])
             IN  [ok |-> FALSE, error |-> h.err, log |-> h.log]
        ELSE IF up.data = "null"
        THEN \* reading a property of the null response
             LET h == handleApiError(
                         TypeError(<<"Cannot read properties of null">>),
                         ctx[1], ctx[2])
             IN  [ok |-> FALSE, error |-> h.err, log |-> h.log]
        ELSE [ok |-> TRUE, error |-> NoError, log |-> <<>>]

\* execute after the handler's promise settles
ExecuteAfterHandler(tool, a, h) ==
    IF h.ok
    THEN [out |-> ToolResult(FALSE, <<"[JSON.stringify(result)]">>, <<>>),
          log |-> h.log]
    ELSE LET c == ExecuteCatch(tool, a, h.error)
         IN  [out |-> c.out, log |-> h.log \o c.log]

(***************************************************************************)
(* The protocol boundary: RequestHandlers' CallTool handler and            *)
(* ToolRegistry.executeTool                                                *)
(***************************************************************************)
\* this.tools.get(name)
GetTool(name) == name \in Range(RegisteredTools)

CallToolNotFound(name) ==
    ToolResult(FALSE,
               <<"Azure DevOps API tool '", name, "' is not yet implemented.">>,
               <<>>)

CallToolCatchSoft(error) ==
    ToolResult(TRUE, <<"Azure DevOps API error: ">> \o MessageOrString(error), <<>>)

CallToolCatch(error) ==
    IF error.cls = "McpError"
    THEN ToolThrow(error)
    ELSE ToolResult(TRUE, <<"Azure DevOps API error: ">> \o MessageOrString(error),
                    <<>>)

ExecuteToolNotFound(name) ==
    ToolThrow(McpError("MethodNotFound", <<"Tool not found: ", name>>))

ExecuteToolCatch(error) ==
    IF error.cls = "McpError"
    THEN ToolThrow(error)
    ELSE ToolThrow(McpError("InternalError",
                            <<"Tool execution failed: ">> \o MessageOrString(error)))

NotFound(e, name) ==
    IF e = "callTool" THEN CallToolNotFound(name) ELSE ExecuteToolNotFound(name)

\* what the caller of `await tool.execute(args)` passes on
Boundary(e, completion) ==
    IF completion.kind # "throw" THEN completion
    ELSE IF e = "callTool" THEN CallToolCatch(completion.err)
    ELSE ExecuteToolCatch(completion.err)

(***************************************************************************)
(* Inputs of an invocation                                                 *)
(***************************************************************************)
ToolNames == Range(RegisteredTools) \cup {"unknown_tool", "toString"}

OperationValues ==
    {JUndef, JNum(1)}
    \cup {JStr(o) : o \in {"list", "get", "create", "listBranches", "bogus", ""}
                          \cup ObjectPrototypeKeys}

Candidates(field) ==
    {JUndef} \cup
    (CASE field.type = "string" -> {JStr("a"), JStr(""), JNum(7)}
       [] field.type = "number" -> {JNum(7), JStr("a")}
       [] field.type = "boolean" -> {JBool(TRUE), JStr("a")}
       [] OTHER -> {JStr(CHOOSE v \in field.values : TRUE), JStr("a")})

WithProp(props, k, v) ==
    [x \in DOMAIN props \cup {k} |-> IF x = k THEN v ELSE props[x]]

RECURSIVE PropsOver(_)
PropsOver(schema) ==
    IF schema = <<>>
    THEN {[k \in {"extra"} |-> v] : v \in {JUndef, JStr("x")}}
    ELSE {WithProp(g, Head(schema).name, v) :
            g \in PropsOver(Tail(schema)), v \in Candidates(Head(schema))}

NonObjectParams ==
    {JUndef, JNull, JNum(0), JNum(7), JStr(""), JStr("a"), JBool(FALSE),
     JBool(TRUE), JArr}

ParamValues(tool, operation) ==
    IF operation.t = "string" /\ operation.s \in Range(OperationNames(tool))
    THEN NonObjectParams \cup {JObj(g) : g \in PropsOver(Schema(tool, operation.s))}
    ELSE {JUndef, JNull, JObj(NoProps)}

Args(t, operation, params, extra) ==
    [t |-> t, operation |-> operation, params |-> params, extra |-> extra]

\* request.params.arguments: params is the value of the key
\* operation + "Params", extra tells whether other top-level keys are present
ArgsFor(tool) ==
    {Args(t, JUndef, JUndef, FALSE) : t \in {"undefined", "null", "string"}}
    \cup UNION {{Args("object", o, p, x) :
                   p \in ParamValues(tool, o), x \in BOOLEAN} :
                o \in OperationValues}

UpstreamErrors ==
    {NullValue, UndefinedValue, StringValue(<<"boom">>),
     ErrVal("Error", "", None, None, Some(<<"socket hang up">>), None, <<>>, <<>>)}
    \cup {ErrVal("Error", "", Some(st), None, Some(<<"upstream message">>), None,
                 <<>>, <<>>) : st \in {400, 401, 404, 500}}
    \cup {ErrVal("object", "", None, Some(st), None, Some(<<"body message">>),
                 <<>>, <<>>) : st \in {403, 429}}

(***************************************************************************)
(* Tool registry: two Maps keyed by the definition's name                  *)
(***************************************************************************)
\* a Map is the sequence of its entries in insertion order
EmptyMap == <<>>
MapHas(m, k) == \E i \in DOMAIN m : m[i].key = k
MapGet(m, k) == m[CHOOSE i \in DOMAIN m : m[i].key = k].value
MapValues(m) == [i \in DOMAIN m |-> m[i].value]

\* Map.prototype.set: a present key keeps its place and takes the new value
MapSet(m, k, v) ==
    IF MapHas(m, k)
    THEN [i \in DOMAIN m |-> IF m[i].key = k THEN [key |-> k, value |-> v] ELSE m[i]]
    ELSE Append(m, [key |-> k, value |-> v])

\* a tool object (or class) offered for registration: id tells objects
\* apart, name is what its getDefinition() reports
ToolObject(id, name) == [id |-> id, name |-> name]

\* tool.getDefinition()
DefinitionOf(tool) == [name |-> tool.name, tool |-> tool.id]

RECURSIVE CoreTools(_)
\* the tools initializeTools creates, in order
CoreTools(n) ==
    IF n = 0 THEN <<>>
    ELSE Append(CoreTools(n - 1), ToolObject(n, RegisteredTools[n]))

\* tools that may be registered after construction
OfferedTools ==
    {ToolObject(10, "projects"), ToolObject(11, "repositories"),
     ToolObject(12, "list_projects"), ToolObject(13, "list_projects"),
     ToolObject(14, "boards")}

MaxRegistrations == 3

\* the two Maps after registerTool(tool)
RegisterInto(maps, tool) ==
    [tools |-> MapSet(maps.tools, DefinitionOf(tool).name, tool.id),
     defs |-> MapSet(maps.defs, DefinitionOf(tool).name, DefinitionOf(tool))]

RECURSIVE RegisterAll(_, _)
RegisterAll(maps, tools) ==
    IF tools = <<>> THEN maps
    ELSE RegisterAll(RegisterInto(maps, Head(tools)), Tail(tools))

\* the registry the constructor leaves
ConstructedRegistry ==
    RegisterAll([tools |-> EmptyMap, defs |-> EmptyMap],
                CoreTools(Len(RegisteredTools)))

\* Array.from(this.toolDefinitions.values())
getAllToolDefinitions(defs) == MapValues(defs)

(***************************************************************************)
(* JavaScript numbers and strings used by the pagination code.  A number   *)
(* is an integer or NaN; a string is its sequence of characters.           *)
(***************************************************************************)
JsNum(v) == [nan |-> FALSE, v |-> v]
JsNaN == [nan |-> TRUE, v |-> 0]

\* a + b
JsAdd(a, b) == IF a.nan \/ b.nan THEN JsNaN ELSE JsNum(a.v + b.v)

\* Math.min(a, b)
JsMin(a, b) ==
    IF a.nan \/ b.nan THEN JsNaN ELSE IF a.v <= b.v THEN a ELSE b

\* a < b
JsLess(a, b) == ~a.nan /\ ~b.nan /\ a.v < b.v

Digits == <<"0", "1", "2", "3", "4", "5", "6", "7", "8", "9">>
IsDigit(c) == \E i \in DOMAIN Digits : Digits[i] = c
DigitValue(c) == (CHOOSE i \in DOMAIN Digits : Digits[i] = c) - 1

RECURSIVE NatToString(_)
NatToString(n) ==
    IF n < 10 THEN <<Digits[n + 1]>>
    ELSE NatToString(n \div 10) \o <<Digits[(n % 10) + 1]>>

\* Number.prototype.toString of an integer
NumberToString(n) ==
    IF n < 0 THEN <<"-">> \o NatToString(0 - n) ELSE NatToString(n)

RECURSIVE SkipSpaces(_)
SkipSpaces(s) ==
    IF s # <<>> /\ s[1] = " " THEN SkipSpaces(Tail(s)) ELSE s

RECURSIVE LeadingDigits(_)
LeadingDigits(s) ==
    IF s # <<>> /\ IsDigit(s[1]) THEN <<s[1]>> \o LeadingDigits(Tail(s)) ELSE <<>>

RECURSIVE DigitsValue(_)
DigitsValue(d) ==
    IF d = <<>> THEN 0
    ELSE DigitsValue(SubSeq(d, 1, Len(d) - 1)) * 10 + DigitValue(d[Len(d)])

\* parseInt(s, 10): leading white space, an optional sign, then the longest
\* run of digits; NaN when there is no digit
ParseInt(s) ==
    LET t == SkipSpaces(s)
        signed == t # <<>> /\ t[1] \in {"-", "+"}
        d == LeadingDigits(IF signed THEN Tail(t) ELSE t)
    IN  IF d = <<>> THEN JsNaN
        ELSE IF signed /\ t[1] = "-" THEN JsNum(0 - DigitsValue(d))
        ELSE JsNum(DigitsValue(d))

\* the index Array.prototype.slice derives from an argument
RelativeIndex(x, len) ==
    IF x.nan THEN 0
    ELSE IF x.v < 0 THEN (IF len + x.v < 0 THEN 0 ELSE len + x.v)
    ELSE IF x.v > len THEN len ELSE x.v

\* list.slice(start, end)
Slice(list, start, end) ==
    SubSeq(list, RelativeIndex(start, Len(list)) + 1,
           RelativeIndex(end, Len(list)))

(***************************************************************************)
(* Pagination utilities and the paging of the list handlers                *)
(***************************************************************************)
PaginationMaxResults == 100
PaginationDefaultMaxResults == 25

PaginationParams(maxResults, continuationToken) ==
    [maxResults |-> maxResults, continuationToken |-> continuationToken]

ClampMaxResultsToDefault(m) ==
    IF m <= PaginationMaxResults THEN m ELSE PaginationDefaultMaxResults

\* Math.min(params.maxResults, DEFAULT_PAGINATION.maxResults)
ClampMaxResults(m) == IF m <= PaginationMaxResults THEN m ELSE PaginationMaxResults

normalizePaginationParams(params) ==
    [maxResults |->
        IF IsSome(params.maxResults) /\ Get(params.maxResults) # 0
        THEN ClampMaxResults(Get(params.maxResults))
        ELSE PaginationDefaultMaxResults,
     continuationToken |->
        IF IsSome(params.continuationToken) /\ Get(params.continuationToken) # <<>>
        THEN Get(params.continuationToken)
        ELSE <<>>]

\* endIndex < list.length ? endIndex.toString() : undefined
NextToken(endIndex, length) ==
    IF JsLess(endIndex, JsNum(length)) THEN Some(NumberToString(endIndex.v))
    ELSE None

\* the paging every list handler applies to the upstream collection
ListPage(list, params) ==
    LET n == normalizePaginationParams(params)
        startIndex == IF n.continuationToken # <<>>
                      THEN ParseInt(n.continuationToken) ELSE JsNum(0)
        endIndex == JsMin(JsAdd(startIndex, JsNum(n.maxResults)), JsNum(Len(list)))
        nextContinuationToken == NextToken(endIndex, Len(list))
    IN  [count |-> Len(list),
         items |-> Slice(list, startIndex, endIndex),
         continuationToken |-> nextContinuationToken,
         hasMore |-> IsSome(nextContinuationToken)
                       /\ Get(nextContinuationToken) # <<>>]

NoPage == [count |-> 0, items |-> <<>>, continuationToken |-> None, hasMore |-> FALSE]
NoPaginationParams == PaginationParams(None, None)

MaxItems == 3
MaxCalls == MaxItems + 2

UpstreamLists == {[i \in 1..n |-> i] : n \in 0..MaxItems}
MaxResultsInputs ==
    {None} \cup {Some(m) : m \in {-2, -1, 0, 1, 2, 25, 100, 101, 500}}
TokenInputs ==
    {None, Some(<<>>), Some(<<"1">>), Some(<<"9">>), Some(<<"-", "2">>),
     Some(<<"a", "b">>), Some(<<" ", "2", "x">>)}

(***************************************************************************)
(* Continuation token codec: decodeContinuationToken and                   *)
(* parseAdoContinuationToken over a table of concrete token strings.       *)
(***************************************************************************)
\* Buffer.from(token, 'base64').toString(): characters outside the base64
\* alphabet are dropped, bytes that are no UTF-8 become U+FFFD
Base64Text(token) ==
    CASE token = "e30=" -> "{}"
      [] token = "bnVsbA==" -> "null"
      [] token = "NQ==" -> "5"
      [] token = "W10=" -> "[]"
      [] token = "ImEi" -> "\"a\""
      [] token = "dHJ1ZQ==" -> "true"
      [] token = "eyJza2lwIjo1LCJ0b3AiOjJ9" -> "{\"skip\":5,\"top\":2}"
      [] token = "eyJza2lwIjoieCJ9" -> "{\"skip\":\"x\"}"
      [] token = "eyJ0b3AiOjB9" -> "{\"top\":0}"
      [] token = "eyJjb250aW51YXRpb25Ub2tlbiI6InQifQ==" -> "{\"continuationToken\":\"t\"}"
      [] token = "!!!" -> ""
      [] token = "abc" -> "i[U+FFFD]"
      [] OTHER -> "[not JSON]"

TokenStrings ==
    {"", "e30=", "bnVsbA==", "NQ==", "W10=", "ImEi", "dHJ1ZQ==",
     "eyJza2lwIjo1LCJ0b3AiOjJ9", "eyJza2lwIjoieCJ9", "eyJ0b3AiOjB9",
     "eyJjb250aW51YXRpb25Ub2tlbiI6InQifQ==", "!!!", "abc", "5"}

\* JSON.parse(text): the value, or the SyntaxError it throws
JsonParse(text) ==
    CASE text = "{}" -> [ok |-> TRUE, value |-> JObj(NoProps), err |-> NoError]
      [] text = "null" -> [ok |-> TRUE, value |-> JNull, err |-> NoError]
      [] text = "5" -> [ok |-> TRUE, value |-> JNum(5), err |-> NoError]
      [] text = "[]" -> [ok |-> TRUE, value |-> JArr, err |-> NoError]
      [] text = "\"a\"" -> [ok |-> TRUE, value |-> JStr("a"), err |-> NoError]
      [] text = "true" -> [ok |-> TRUE, value |-> JBool(TRUE), err |-> NoError]
      [] text = "{\"skip\":5,\"top\":2}" ->
           [ok |-> TRUE,
            value |-> JObj(("skip" :> JNum(5)) @@ ("top" :> JNum(2))),
            err |-> NoError]
      [] text = "{\"skip\":\"x\"}" ->
           [ok |-> TRUE, value |-> JObj("skip" :> JStr("x")), err |-> NoError]
      [] text = "{\"top\":0}" ->
           [ok |-> TRUE, value |-> JObj("top" :> JNum(0)), err |-> NoError]
      [] text = "{\"continuationToken\":\"t\"}" ->
           [ok |-> TRUE, value |-> JObj("continuationToken" :> JStr("t")),
            err |-> NoError]
      [] text = "" ->
           [ok |-> FALSE, value |-> JUndef,
            err |-> ErrVal("Error", "", None, None,
                           Some(<<"Unexpected end of JSON input">>), None,
                           <<>>, <<>>)]
      [] OTHER ->
           [ok |-> FALSE, value |-> JUndef,
            err |-> ErrVal("Error", "", None, None,
                           Some(<<"Unexpected token in JSON">>), None,
                           <<>>, <<>>)]

Returned(value) == [kind |-> "return", value |-> value, err |-> NoError]
Thrown(error) == [kind |-> "throw", value |-> JUndef, err |-> error]
NotCalled == [kind |-> "none", value |-> JUndef, err |-> NoError]

decodeContinuationToken(token) ==
    IF token = "" THEN Returned(JObj(NoProps))
    ELSE LET parsed == JsonParse(Base64Text(token))
         IN  IF parsed.ok THEN Returned(parsed.value)
             ELSE Thrown(McpError("InvalidParams",
                                  <<"Invalid continuation token: ">>
                                     \o MessageOrString(parsed.err)))

\* a || b
OrElse(a, b) == IF Falsy(a) THEN b ELSE a

\* decoded.k as the runtime evaluates it
PropertyRead(value, k) ==
    IF value.t \in {"null", "undefined"}
    THEN [threw |-> TRUE, value |-> JUndef,
          err |-> TypeError(<<"Cannot read properties of ", value.t,
                              " (reading '", k, "')">>)]
    ELSE [threw |-> FALSE, value |-> PropertyOf(value, k), err |-> NoError]

parseAdoContinuationToken(token) ==
    IF token = None \/ Get(token) = ""
    THEN Returned(JObj(("skip" :> JNum(0))
                         @@ ("top" :> JNum(PaginationDefaultMaxResults))))
    ELSE LET decoded == decodeContinuationToken(Get(token))
         IN  IF decoded.kind = "throw" THEN decoded
             ELSE LET ct == PropertyRead(decoded.value, "continuationToken")
                  IN  IF ct.threw THEN Thrown(ct.err)
                      ELSE Returned(JObj(
                             ("continuationToken" :> ct.value)
                             @@ ("skip" :> OrElse(PropertyOf(decoded.value, "skip"),
                                                  JNum(0)))
                             @@ ("top" :> OrElse(PropertyOf(decoded.value, "top"),
                                                 JNum(PaginationDefaultMaxResults)))))

(***************************************************************************)
(* SpecClassify: handleApiError applied to one raw error value.            *)
(***************************************************************************)
Statuses == {0, 200, 302, 400, 401, 403, 404, 409, 429, 499, 500, 503}
OptStatus == {None} \cup {Some(s) : s \in Statuses}
Messages == {<<>>, <<"upstream message">>}

RawErrors ==
    {NullValue, UndefinedValue, StringValue(<<>>), StringValue(<<"boom">>),
     McpError("InternalError", <<"wrapped">>), TypeError(<<"x is not a function">>)}
    \cup {ErrVal("Error", "", sc, st, Some(m), b, <<>>, <<>>) :
            sc \in OptStatus, st \in OptStatus, m \in Messages,
            b \in {None, Some(<<"body message">>)}}
    \cup {ErrVal("object", "", sc, st, om, b, <<>>, <<>>) :
            sc \in OptStatus, st \in OptStatus,
            om \in {None} \cup {Some(m) : m \in Messages},
            b \in {None, Some(<<>>), Some(<<"body message">>)}}

Callers == {<<"ProjectsTool", "listProjects">>, <<"ADOApiClient", "Failed to get Core API client">>}

(***************************************************************************)
(* JavaScript objects used as dictionaries (this.operations, this.schemas, *)
(* this.operationDescriptions, the properties of a definition): the own    *)
(* properties in insertion order, and the prototype.                       *)
(***************************************************************************)
ObjectPrototype == [kind |-> "Object.prototype"]
JsUndefined == [kind |-> "undefined"]
JsFunction(ref) == [kind |-> "function", ref |-> ref]
JsString(text) == [kind |-> "string", text |-> text]

\* {}
EmptyObject == [own |-> EmptyMap, proto |-> ObjectPrototype]

\* obj[k] = v for an object or function v: the key __proto__ is the accessor
\* Object.prototype defines, every other key an own property
AssignProperty(obj, k, v) ==
    IF k = "__proto__"
    THEN IF v.kind = "string" THEN obj ELSE [obj EXCEPT !.proto = v]
    ELSE [obj EXCEPT !.own = MapSet(obj.own, k, v)]

\* Object.keys(obj)
ObjectKeys(obj) == [i \in DOMAIN obj.own |-> obj.own[i].key]

\* obj[k]
ReadProperty(obj, k) ==
    IF MapHas(obj.own, k) THEN MapGet(obj.own, k)
    ELSE IF k = "__proto__" THEN obj.proto
    ELSE IF k \in ObjectPrototypeKeys THEN JsFunction("Object.prototype." \o k)
    ELSE JsUndefined

(***************************************************************************)
(* EntityTool: the constructor, registerOperation and getDefinition        *)
(***************************************************************************)
\* z.object(shape).strict() / z.object(shape).passthrough()
ZodObject(shape, unknownKeys) ==
    [kind |-> "ZodObject", shape |-> shape, unknownKeys |-> unknownKeys]

\* _def.typeName of a field's zod type: .optional() wraps the type
ZodTypeName(field) ==
    IF field.optional THEN "ZodOptional"
    ELSE CASE field.type = "string" -> "ZodString"
           [] field.type = "number" -> "ZodNumber"
           [] field.type = "boolean" -> "ZodBoolean"
           [] OTHER -> "ZodEnum"

\* the keys of a field's _def (zod 3)
ZodDefKeys(field) ==
    {"typeName", "description"}
    \cup (CASE ZodTypeName(field) = "ZodOptional" -> {"innerType"}
            [] ZodTypeName(field) = "ZodEnum" -> {"values"}
            [] ZodTypeName(field) = "ZodBoolean" -> {"coerce"}
            [] OTHER -> {"checks", "coerce"})

\* the loop body of generateSchemaDescription for one field
DescribeField(field) ==
    [key |-> field.name,
     type |-> CASE ZodTypeName(field) = "ZodString" -> "string"
                [] ZodTypeName(field) = "ZodNumber" -> "number"
                [] ZodTypeName(field) = "ZodBoolean" -> "boolean"
                [] ZodTypeName(field) = "ZodArray" -> "array"
                [] ZodTypeName(field) = "ZodObject" -> "object"
                [] OTHER -> "string",
     enum |-> IF ZodTypeName(field) = "ZodEnum" THEN Some(field.values) ELSE None]

generateSchemaDescription(schema) ==
    [properties |-> [i \in DOMAIN schema.shape |-> DescribeField(schema.shape[i])],
     required |->
        LET listed == SelectSeq(schema.shape,
                                LAMBDA f : "isOptional" \notin ZodDefKeys(f))
        IN  [i \in DOMAIN listed |-> listed[i].name]]

\* the state of an EntityTool after super(...)
NewEntityTool(name) ==
    [name |-> name, operations |-> EmptyObject, schemas |-> EmptyObject,
     operationDescriptions |-> JsUndefined]

registerOperation(tool, operation, handler, schema, description) ==
    [tool EXCEPT
       !.operations = AssignProperty(@, operation, handler),
       !.schemas = AssignProperty(@, operation,
                      IF IsSome(schema) THEN Get(schema)
                      ELSE ZodObject(<<>>, "passthrough")),
       !.operationDescriptions =
          IF IsSome(description) /\ Get(description) # ""
          THEN AssignProperty(IF @ = JsUndefined THEN EmptyObject ELSE @,
                              operation, JsString(Get(description)))
          ELSE @]

\* this.operationDescriptions?.[operation] || `Parameters for ... operation`
ParamsDescription(tool, operation) ==
    LET stored == IF tool.operationDescriptions = JsUndefined THEN JsUndefined
                  ELSE ReadProperty(tool.operationDescriptions, operation)
    IN  IF stored = JsUndefined
        THEN JsString("Parameters for " \o operation \o " operation")
        ELSE stored

\* the value getDefinition stores under `${operation}Params`
OperationProperty(tool, operation) ==
    LET schema == ReadProperty(tool.schemas, operation)
        described == IF schema.kind = "ZodObject"
                     THEN generateSchemaDescription(schema)
                     ELSE [properties |-> <<>>, required |-> <<>>]
    IN  [kind |-> "params", type |-> "object",
         description |-> ParamsDescription(tool, operation),
         properties |-> described.properties,
         required |-> described.required]

RECURSIVE DefinitionProperties(_, _, _)
\* the for loop of getDefinition over Object.keys(this.operations)
DefinitionProperties(tool, operations, properties) ==
    IF operations = <<>> THEN properties
    ELSE DefinitionProperties(tool, Tail(operations),
            AssignProperty(properties, Head(operations) \o "Params",
                           OperationProperty(tool, Head(operations))))

getDefinition(tool) ==
    [name |-> tool.name,
     inputSchema |->
        [type |-> "object",
         properties |->
            DefinitionProperties(tool, ObjectKeys(tool.operations),
               AssignProperty(EmptyObject, "operation",
                  [kind |-> "operation", type |-> "string",
                   enum |-> ObjectKeys(tool.operations)])),
         required |-> <<"operation">>,
         additionalProperties |-> FALSE]]

\* one registerOperation call
Registration(operation, handler, schema, description) ==
    [operation |-> operation, handler |-> handler, schema |-> schema,
     description |-> description]

\* the registerOperation calls of the constructor of a tool of the factory
ConstructorRegistrations(name) ==
    [i \in DOMAIN OperationNames(name) |->
        Registration(OperationNames(name)[i],
                     JsFunction(HandlerContext(name, OperationNames(name)[i])[2]),
                     Some(ZodObject(Schema(name, OperationNames(name)[i]), "strict")),
                     Some("[description]"))]

MaxOperations == 3

\* the registerOperation calls a further subclass may make
OfferedRegistrations(n) ==
    {Registration(o, JsFunction("handler" \o ToString(n)), t[1], t[2]) :
        o \in {"list", "get", "toString", "__proto__"},
        t \in {<<None, None>>,
               <<Some(ZodObject(<<ProjectIdField, MaxResultsField>>, "strict")),
                 Some("[description]")>>}}

(***************************************************************************)
(* Concurrent invocations: several call chains in flight at once, each     *)
(* with the locals of its own activation of execute / executeWithRetry.    *)
(***************************************************************************)
MaxInvocations == 2
Invocations == 1..MaxInvocations

CallLocalsShared(i) == 1

\* the activation record holding the locals of invocation i (operation,
\* validParams; attempt, delay, lastError): one per call
CallLocals(i) == i

NoLocals ==
    [operation |-> "", params |-> JUndef, attempt |-> 0, delay |-> 0,
     lastError |-> NoError]

\* this.config.retry of the shared API client
SharedRetryConfig ==
    [maxRetries |-> DefaultMaxRetries, delayMs |-> DefaultDelayMs,
     backoffFactor |-> DefaultBackoffFactor]

NoTask == [kind |-> "none", tool |-> "", args |-> <<>>]
RequestTask == [kind |-> "request", tool |-> "", args |-> <<>>]
ExecuteTasks ==
    {[kind |-> "execute", tool |-> "projects", args |-> a] :
        a \in {Args("object", JStr("list"), JObj(NoProps), FALSE),
               Args("object", JStr("list"), JObj("maxResults" :> JStr("a")), FALSE),
               Args("object", JStr("bogus"), JUndef, FALSE)}}

\* how the upstream answers a handler, and one attempt of a transport call
HandlerUpstreams ==
    {Upstream("resolve", NoError, "data"),
     Upstream("reject",
              ErrVal("Error", "", Some(404), None, Some(<<"upstream message">>),
                     None, <<>>, <<>>), "")}
RequestOutcomes ==
    {o \in AttemptOutcomes :
        o.kind = "success" \/ (o.kind = "http" /\ Get(o.status) \in {401, 503})}

\* execute run on its own with the upstream answers seen
ExecuteAlone(task, seen) ==
    LET t == ExecuteTry(task.tool, task.args)
    IN  IF t.stage # "await" THEN ExecuteCatch(task.tool, task.args, t.error).out
        ELSE IF seen = <<>> THEN ToolPending
        ELSE ExecuteAfterHandler(task.tool, task.args,
                Handler(task.tool, task.args.operation.s, t.params, seen[1])).out

RECURSIVE RequestAlone(_, _, _, _, _)
\* executeWithRetry run on its own over the attempt outcomes seen: its
\* completion and the delays it waited
RequestAlone(cfg, seen, n, d, waited) ==
    IF n > cfg.maxRetries
    THEN [out |-> [kind |-> "throw",
                   err |-> ExhaustedError(cfg.maxRetries, NoError)],
          delays |-> waited]
    ELSE IF seen = <<>> THEN [out |-> RetryPending, delays |-> waited]
    ELSE IF Head(seen).kind = "success"
    THEN [out |-> [kind |-> "return", err |-> NoError], delays |-> waited]
    ELSE LET error == RequestError(Head(seen))
         IN  IF IsNoRetryError(error)
             THEN [out |-> [kind |-> "throw", err |-> error], delays |-> waited]
             ELSE IF IsLastAttempt(n, cfg.maxRetries)
             THEN [out |-> [kind |-> "throw",
                            err |-> ExhaustedError(cfg.maxRetries, error)],
                   delays |-> waited]
             ELSE RequestAlone(cfg, Tail(seen), n + 1,
                               NextDelay(d, cfg.backoffFactor), Append(waited, d))

(***************************************************************************)
(* The parts of the state at rest                                          *)
(***************************************************************************)
ToolIdle ==
    /\ pc = "idle" /\ entry = "" /\ toolName = "" /\ args = <<>>
    /\ validParams = JUndef /\ handlerCalls = <<>> /\ upstream = NoUpstream
    /\ sent = NothingSent
    /\ execOut = ToolPending /\ finalOut = ToolPending /\ errorLog = <<>>

RetryIdle ==
    /\ rPc = "idle" /\ retryCfg = <<>> /\ sdkCodes = "declared"
    /\ attempt = 0 /\ delay = 0 /\ lastError = NoError
    /\ attempts = <<>> /\ delays = <<>> /\ rOut = RetryPending /\ rLog = <<>>

ClassifyIdle ==
    /\ cPc = "idle" /\ cIn = <<>> /\ cOut = NoCompletion

PageIdle ==
    /\ pPc = "idle" /\ pList = <<>>
    /\ pParams = NoPaginationParams /\ pNorm = normalizePaginationParams(pParams)
    /\ pResult = NoPage /\ pPages = <<>> /\ pCalls = 0 /\ pFromStart = FALSE
    /\ tPc = "idle" /\ tIn = <<>> /\ tOut = NotCalled

RegistryIdle ==
    /\ regTools = EmptyMap /\ regDefs = EmptyMap /\ regCalls = <<>>
    /\ regPrev = EmptyMap /\ regOut = "none" /\ regListed = None

ContractIdle ==
    /\ etPc = "idle" /\ etTool = <<>> /\ etRegs = <<>> /\ etDef = None

ConcurrentIdle ==
    /\ iPc = <<>> /\ iTask = <<>> /\ iLocals = <<>> /\ iSeen = <<>>
    /\ iWaits = <<>> /\ iOut = <<>>
    /\ sharedRegistry = <<>> /\ sharedRetry = <<>>

InitClassify ==
    /\ cPc = "start"
    /\ cIn \in {[error |-> e, source |-> c[1], operation |-> c[2]] :
                  e \in RawErrors, c \in Callers}
    /\ cOut = NoCompletion
    /\ ToolIdle /\ RetryIdle /\ PageIdle /\ RegistryIdle /\ ContractIdle /\ ConcurrentIdle

Classify ==
    /\ cPc = "start"
    /\ cOut' = handleApiError(cIn.error, cIn.source, cIn.operation)
    /\ cPc' = "done"
    /\ UNCHANGED <<cIn, classifyFrame>>

NextClassify == Classify

SpecClassify == InitClassify /\ [][NextClassify]_vars


InitRetry ==
    /\ rPc = "idle"
    /\ retryCfg \in RetryConfigs
    /\ sdkCodes \in {"declared", "undeclared"}
    /\ attempt = 0 /\ delay = 0 /\ lastError = NoError
    /\ attempts = <<>> /\ delays = <<>> /\ rOut = RetryPending /\ rLog = <<>>
    /\ ClassifyIdle /\ ToolIdle /\ PageIdle /\ RegistryIdle /\ ContractIdle /\ ConcurrentIdle

\* request() calls executeWithRetry: locals initialised, loop entered (or
\* skipped when maxRetries < 1)
StartCall ==
    /\ rPc = "idle"
    /\ delay' = retryCfg.delayMs
    /\ lastError' = NoError
    /\ IF 1 <= retryCfg.maxRetries
       THEN /\ attempt' = 1
            /\ rPc' = "attempting"
            /\ rOut' = rOut
       ELSE /\ attempt' = 1
            /\ rPc' = "done"
            /\ rOut' = [kind |-> "throw",
                        err |-> ExhaustedError(retryCfg.maxRetries, NoError)]
    /\ UNCHANGED <<retryCfg, sdkCodes, attempts, delays, rLog, retryFrame>>

\* await operation() resolves: return response.data
AttemptSucceeds ==
    /\ rPc = "attempting"
    /\ \E o \in {x \in AttemptOutcomes : x.kind = "success"} :
          attempts' = Append(attempts, [outcome |-> o, err |-> NoError])
    /\ rOut' = [kind |-> "return", err |-> NoError]
    /\ rLog' = rLog \o <<RequestLogLine, ResponseLogLine>>
    /\ rPc' = "done"
    /\ UNCHANGED <<retryCfg, sdkCodes, attempt, delay, lastError, delays,
                   retryFrame>>

\* await operation() rejects: the catch block of the loop body
AttemptFails ==
    /\ rPc = "attempting"
    /\ \E o \in {x \in AttemptOutcomes : x.kind # "success"} :
          LET error == RequestError(o)
          IN  /\ attempts' = Append(attempts, [outcome |-> o, err |-> error])
              /\ lastError' = error
              /\ IF IsNoRetryError(error)
                 THEN /\ rOut' = [kind |-> "throw", err |-> error]
                      /\ rPc' = "done"
                      /\ delays' = delays
                 ELSE IF IsLastAttempt(attempt, retryCfg.maxRetries)
                 THEN /\ rOut' = [kind |-> "throw",
                                  err |-> ExhaustedError(retryCfg.maxRetries, error)]
                      /\ rPc' = "done"
                      /\ delays' = delays
                 ELSE /\ rOut' = rOut
                      /\ rPc' = "waiting"
                      /\ delays' = Append(delays, delay)
              /\ rLog' = rLog \o <<RequestLogLine, ResponseErrorLogLine(o)>>
                            \o (IF IsNoRetryError(error)
                                     \/ IsLastAttempt(attempt, retryCfg.maxRetries)
                                THEN <<>>
                                ELSE <<RetryWarnLine(attempt, delay)>>)
    /\ UNCHANGED <<retryCfg, sdkCodes, attempt, delay, retryFrame>>

\* await setTimeout(delay) resolves: delay *= backoffFactor; attempt++
DelayElapses ==
    /\ rPc = "waiting"
    /\ delay' = NextDelay(delay, retryCfg.backoffFactor)
    /\ attempt' = attempt + 1
    /\ rPc' = "attempting"
    /\ UNCHANGED <<retryCfg, sdkCodes, lastError, attempts, delays, rOut, rLog,
                   retryFrame>>

\* the request is sent and the upstream never responds: the axios instance is
\* created without a timeout, so the promise of the attempt never settles
UpstreamSilent ==
    /\ rPc = "attempting"
    /\ rPc' = "unsettled"
    /\ rLog' = Append(rLog, RequestLogLine)
    /\ UNCHANGED <<retryCfg, sdkCodes, attempt, delay, lastError, attempts,
                   delays, rOut, retryFrame>>

NextRetry ==
    \/ StartCall
    \/ AttemptSucceeds
    \/ AttemptFails
    \/ DelayElapses
    \/ UpstreamSilent

SpecRetry == InitRetry /\ [][NextRetry]_vars

\* every step of the call that can be taken is eventually taken: the event
\* loop runs a settled promise's continuation and fires a due timer
SpecRetryLive == SpecRetry /\ WF_vars(NextRetry)

(***************************************************************************)
(* Spec: tool invocations through the protocol boundary, one at a time.    *)
(* An action is one run-to-await segment of the invocation's call chain.   *)
(***************************************************************************)
Init ==
    /\ ToolIdle /\ ClassifyIdle /\ RetryIdle /\ PageIdle /\ RegistryIdle /\ ContractIdle /\ ConcurrentIdle

\* a call names a tool the registry does not hold
InvokeUnknownTool ==
    /\ pc = "idle"
    /\ \E e \in {"callTool", "executeTool"}, name \in ToolNames :
          /\ ~GetTool(name)
          /\ entry' = e
          /\ toolName' = name
          /\ args' \in ArgsFor(name)
          /\ finalOut' = NotFound(e, name)
    /\ pc' = "done"
    /\ UNCHANGED <<validParams, handlerCalls, upstream, sent, execOut, errorLog,
                   toolFrame>>

\* a call names a registered tool: execute runs up to the handler's first
\* await, or to its own completion
InvokeTool ==
    /\ pc = "idle"
    /\ \E e \in {"callTool", "executeTool"}, name \in ToolNames :
          /\ GetTool(name)
          /\ entry' = e
          /\ toolName' = name
          /\ \E a \in ArgsFor(name) :
                LET t == ExecuteTry(name, a)
                    c == ExecuteCatch(name, a, t.error)
                IN  /\ args' = a
                    /\ IF t.stage = "await"
                       THEN /\ pc' = "handler"
                            /\ validParams' = t.params
                            /\ handlerCalls' =
                                  Append(handlerCalls,
                                         [tool |-> name,
                                          operation |-> a.operation.s,
                                          params |-> t.params])
                            /\ UNCHANGED <<execOut, finalOut, errorLog>>
                       ELSE /\ pc' = "done"
                            /\ execOut' = c.out
                            /\ finalOut' = Boundary(e, c.out)
                            /\ errorLog' = errorLog \o t.log \o c.log
                            /\ UNCHANGED <<validParams, handlerCalls>>
    /\ UNCHANGED <<upstream, sent, toolFrame>>

\* the completions after the handler's promise settles with the upstream
\* outcome up: execute and the boundary run to completion
Settled(up) ==
    LET h == Handler(toolName, args.operation.s, validParams, up)
        x == ExecuteAfterHandler(toolName, args, h)
    IN  [execOut |-> x.out, finalOut |-> Boundary(entry, x.out), log |-> x.log]

\* apiClient.get<X>Api() rejects
ApiClientFails ==
    /\ pc = "handler"
    /\ \E e \in UpstreamErrors :
          /\ upstream' = Upstream("apiClient", e, "")
          /\ execOut' = Settled(upstream').execOut
          /\ finalOut' = Settled(upstream').finalOut
          /\ errorLog' = errorLog \o Settled(upstream').log
    /\ pc' = "done"
    /\ UNCHANGED <<entry, toolName, args, validParams, handlerCalls, sent,
                   toolFrame>>

\* the upstream API call rejects
UpstreamRejects ==
    /\ pc = "handler"
    /\ \E e \in UpstreamErrors :
          /\ upstream' = Upstream("reject", e, "")
          /\ execOut' = Settled(upstream').execOut
          /\ finalOut' = Settled(upstream').finalOut
          /\ errorLog' = errorLog \o Settled(upstream').log
    /\ sent' = UpstreamRequest(toolName, args.operation.s, validParams)
    /\ pc' = "done"
    /\ UNCHANGED <<entry, toolName, args, validParams, handlerCalls,
                   toolFrame>>

\* the upstream API call resolves, with data or with null
UpstreamResolves ==
    /\ pc = "handler"
    /\ \E d \in {"data", "null"} :
          /\ upstream' = Upstream("resolve", NoError, d)
          /\ execOut' = Settled(upstream').execOut
          /\ finalOut' = Settled(upstream').finalOut
          /\ errorLog' = errorLog \o Settled(upstream').log
    /\ sent' = UpstreamRequest(toolName, args.operation.s, validParams)
    /\ pc' = "done"
    /\ UNCHANGED <<entry, toolName, args, validParams, handlerCalls,
                   toolFrame>>

\* the server takes the next request
NextRequest ==
    /\ pc = "done"
    /\ pc' = "idle" /\ entry' = "" /\ toolName' = "" /\ args' = <<>>
    /\ validParams' = JUndef /\ handlerCalls' = <<>> /\ upstream' = NoUpstream
    /\ sent' = NothingSent
    /\ execOut' = ToolPending /\ finalOut' = ToolPending /\ errorLog' = <<>>
    /\ UNCHANGED <<toolFrame>>

Next ==
    \/ InvokeUnknownTool
    \/ InvokeTool
    \/ ApiClientFails
    \/ UpstreamRejects
    \/ UpstreamResolves
    \/ NextRequest

Spec == Init /\ [][Next]_vars

(***************************************************************************)
(* SpecPage: a client pages through one upstream collection with a list    *)
(* operation, feeding back the continuation token of the previous result;  *)
(* the token decoding functions are called on their own.                   *)
(***************************************************************************)
InitPage ==
    /\ pPc = "idle" /\ pList \in UpstreamLists
    /\ pParams = NoPaginationParams /\ pNorm = normalizePaginationParams(pParams)
    /\ pResult = NoPage /\ pPages = <<>> /\ pCalls = 0 /\ pFromStart = FALSE
    /\ tPc = "idle" /\ tIn = <<>> /\ tOut = NotCalled
    /\ ToolIdle /\ ClassifyIdle /\ RetryIdle /\ RegistryIdle /\ ContractIdle /\ ConcurrentIdle

\* the first call of a paging session, with any parameters
ListFirst ==
    /\ pPc = "idle"
    /\ \E m \in MaxResultsInputs, t \in TokenInputs :
          /\ pParams' = PaginationParams(m, t)
          /\ pFromStart' = (t = None)
    /\ pNorm' = normalizePaginationParams(pParams')
    /\ pResult' = ListPage(pList, pParams')
    /\ pPages' = pResult'.items
    /\ pCalls' = 1
    /\ pPc' = "paged"
    /\ UNCHANGED <<pList, tPc, tIn, tOut, pageFrame>>

\* the next call, with the continuationToken the previous result returned
ListNext ==
    /\ pPc = "paged"
    /\ IsSome(pResult.continuationToken)
    /\ pCalls < MaxCalls
    /\ pParams' = PaginationParams(pParams.maxResults, pResult.continuationToken)
    /\ pNorm' = normalizePaginationParams(pParams')
    /\ pResult' = ListPage(pList, pParams')
    /\ pPages' = pPages \o pResult'.items
    /\ pCalls' = pCalls + 1
    /\ UNCHANGED <<pPc, pList, pFromStart, tPc, tIn, tOut, pageFrame>>

\* decodeContinuationToken(token) is called
DecodeToken ==
    /\ tPc = "idle"
    /\ \E token \in TokenStrings :
          /\ tIn' = [fn |-> "decodeContinuationToken", token |-> Some(token)]
          /\ tOut' = decodeContinuationToken(token)
    /\ tPc' = "done"
    /\ UNCHANGED <<pPc, pList, pParams, pNorm, pResult, pPages, pCalls,
                   pFromStart, pageFrame>>

\* parseAdoContinuationToken(token) is called
ParseAdoToken ==
    /\ tPc = "idle"
    /\ \E token \in {None} \cup {Some(t) : t \in TokenStrings} :
          /\ tIn' = [fn |-> "parseAdoContinuationToken", token |-> token]
          /\ tOut' = parseAdoContinuationToken(token)
    /\ tPc' = "done"
    /\ UNCHANGED <<pPc, pList, pParams, pNorm, pResult, pPages, pCalls,
                   pFromStart, pageFrame>>

NextPage ==
    \/ ListFirst
    \/ ListNext
    \/ DecodeToken
    \/ ParseAdoToken

SpecPage == InitPage /\ [][NextPage]_vars

(***************************************************************************)
(* SpecRegistry: tools are registered on a constructed registry and the    *)
(* ListTools handler advertises the definitions.                           *)
(***************************************************************************)
InitRegistry ==
    /\ regTools = ConstructedRegistry.tools
    /\ regDefs = ConstructedRegistry.defs
    /\ regCalls = CoreTools(Len(RegisteredTools))
    /\ regPrev = EmptyMap
    /\ regOut = "none"
    /\ regListed = None
    /\ ToolIdle /\ ClassifyIdle /\ RetryIdle /\ PageIdle /\ ContractIdle /\ ConcurrentIdle

\* registerTool(tool)
RegisterTool ==
    /\ Len(regCalls) < Len(RegisteredTools) + MaxRegistrations
    /\ \E tool \in OfferedTools :
          /\ regTools' = RegisterInto([tools |-> regTools, defs |-> regDefs], tool).tools
          /\ regDefs' = RegisterInto([tools |-> regTools, defs |-> regDefs], tool).defs
          /\ regCalls' = Append(regCalls, tool)
    /\ regPrev' = regTools
    /\ regOut' = "return"
    /\ regListed' = None
    /\ UNCHANGED registryFrame

\* the ListTools request handler: getAllToolDefinitions()
ListTools ==
    /\ regListed' = Some(getAllToolDefinitions(regDefs))
    /\ UNCHANGED <<regTools, regDefs, regCalls, regPrev, regOut, registryFrame>>

NextRegistry ==
    \/ RegisterTool
    \/ ListTools

SpecRegistry == InitRegistry /\ [][NextRegistry]_vars

(***************************************************************************)
(* SpecContract: an entity tool is constructed (its constructor registers  *)
(* its operations) and asked for its definition.                           *)
(***************************************************************************)
InitContract ==
    /\ etPc = "constructing"
    /\ \E name \in Range(RegisteredTools) \cup {"custom"} :
          etTool = NewEntityTool(name)
    /\ etRegs = <<>>
    /\ etDef = None
    /\ ToolIdle /\ ClassifyIdle /\ RetryIdle /\ PageIdle /\ RegistryIdle
    /\ ConcurrentIdle

\* the constructor calls this.registerOperation(...)
RegisterOperation ==
    /\ etPc = "constructing"
    /\ \E r \in IF etTool.name = "custom"
                THEN IF Len(etRegs) < MaxOperations
                     THEN OfferedRegistrations(Len(etRegs) + 1) ELSE {}
                ELSE IF Len(etRegs) < Len(ConstructorRegistrations(etTool.name))
                     THEN {ConstructorRegistrations(etTool.name)[Len(etRegs) + 1]}
                     ELSE {} :
          /\ etTool' = registerOperation(etTool, r.operation, r.handler,
                                         r.schema, r.description)
          /\ etRegs' = Append(etRegs, r)
    /\ UNCHANGED <<etPc, etDef, contractFrame>>

\* the constructor returns
ConstructorReturns ==
    /\ etPc = "constructing"
    /\ etTool.name # "custom"
          => Len(etRegs) = Len(ConstructorRegistrations(etTool.name))
    /\ etPc' = "constructed"
    /\ UNCHANGED <<etTool, etRegs, etDef, contractFrame>>

\* getDefinition()
GetDefinition ==
    /\ etPc = "constructed"
    /\ etDef' = Some(getDefinition(etTool))
    /\ UNCHANGED <<etPc, etTool, etRegs, contractFrame>>

NextContract ==
    \/ RegisterOperation
    \/ ConstructorReturns
    \/ GetDefinition

SpecContract == InitContract /\ [][NextContract]_vars

(***************************************************************************)
(* SpecConcurrent: invocations of execute and transport calls in flight at *)
(* the same time; a step is one run-to-await segment of one of them.       *)
(***************************************************************************)
InitConcurrent ==
    /\ iPc = [i \in Invocations |-> "idle"]
    /\ iTask = [i \in Invocations |-> NoTask]
    /\ iLocals = [i \in Invocations |-> NoLocals]
    /\ iSeen = [i \in Invocations |-> <<>>]
    /\ iWaits = [i \in Invocations |-> <<>>]
    /\ iOut = [i \in Invocations |-> ToolPending]
    /\ sharedRegistry = ConstructedRegistry
    /\ sharedRetry = SharedRetryConfig
    /\ ToolIdle /\ ClassifyIdle /\ RetryIdle /\ PageIdle /\ RegistryIdle
    /\ ContractIdle

\* invocation i enters execute and runs to the handler's first await, or to
\* its completion
BeginExecute(i) ==
    /\ iPc[i] = "idle"
    /\ \E task \in ExecuteTasks :
          LET t == ExecuteTry(task.tool, task.args)
          IN  /\ MapHas(sharedRegistry.tools, task.tool)
              /\ iTask' = [iTask EXCEPT ![i] = task]
              /\ IF t.stage = "await"
                 THEN /\ iPc' = [iPc EXCEPT ![i] = "handler"]
                      /\ iLocals' = [iLocals EXCEPT ![CallLocals(i)] =
                            [NoLocals EXCEPT !.operation = task.args.operation.s,
                                             !.params = t.params]]
                      /\ iOut' = iOut
                 ELSE /\ iPc' = [iPc EXCEPT ![i] = "done"]
                      /\ iLocals' = iLocals
                      /\ iOut' = [iOut EXCEPT ![i] =
                            ExecuteCatch(task.tool, task.args, t.error).out]
    /\ UNCHANGED <<iSeen, iWaits, sharedRegistry, sharedRetry, concurrentFrame>>

\* the handler of invocation i settles and execute completes
SettleExecute(i) ==
    /\ iPc[i] = "handler"
    /\ \E up \in HandlerUpstreams :
          /\ iSeen' = [iSeen EXCEPT ![i] = <<up>>]
          /\ iOut' = [iOut EXCEPT ![i] =
                ExecuteAfterHandler(iTask[i].tool, iTask[i].args,
                   Handler(iTask[i].tool, iLocals[CallLocals(i)].operation,
                           iLocals[CallLocals(i)].params, up)).out]
    /\ iPc' = [iPc EXCEPT ![i] = "done"]
    /\ UNCHANGED <<iTask, iLocals, iWaits, sharedRegistry, sharedRetry,
                   concurrentFrame>>

\* invocation i calls executeWithRetry: the locals are initialised and the
\* loop is entered
BeginRequest(i) ==
    /\ iPc[i] = "idle"
    /\ iTask' = [iTask EXCEPT ![i] = RequestTask]
    /\ iLocals' = [iLocals EXCEPT ![CallLocals(i)] =
          [NoLocals EXCEPT !.attempt = 1, !.delay = sharedRetry.delayMs]]
    /\ IF 1 <= sharedRetry.maxRetries
       THEN /\ iPc' = [iPc EXCEPT ![i] = "attempting"]
            /\ iOut' = [iOut EXCEPT ![i] = RetryPending]
       ELSE /\ iPc' = [iPc EXCEPT ![i] = "done"]
            /\ iOut' = [iOut EXCEPT ![i] =
                  [kind |-> "throw",
                   err |-> ExhaustedError(sharedRetry.maxRetries, NoError)]]
    /\ UNCHANGED <<iSeen, iWaits, sharedRegistry, sharedRetry, concurrentFrame>>

\* the attempt of invocation i settles: return, throw, or wait for a retry
AttemptSettles(i) ==
    /\ iPc[i] = "attempting"
    /\ \E o \in RequestOutcomes :
          LET error == RequestError(o)
              locals == iLocals[CallLocals(i)]
          IN  /\ iSeen' = [iSeen EXCEPT ![i] = Append(@, o)]
              /\ IF o.kind = "success"
                 THEN /\ iOut' = [iOut EXCEPT ![i] =
                            [kind |-> "return", err |-> NoError]]
                      /\ iPc' = [iPc EXCEPT ![i] = "done"]
                      /\ UNCHANGED <<iLocals, iWaits>>
                 ELSE /\ iLocals' = [iLocals EXCEPT
                            ![CallLocals(i)].lastError = error]
                      /\ IF IsNoRetryError(error)
                         THEN /\ iOut' = [iOut EXCEPT ![i] =
                                    [kind |-> "throw", err |-> error]]
                              /\ iPc' = [iPc EXCEPT ![i] = "done"]
                              /\ iWaits' = iWaits
                         ELSE IF IsLastAttempt(locals.attempt,
                                               sharedRetry.maxRetries)
                         THEN /\ iOut' = [iOut EXCEPT ![i] =
                                    [kind |-> "throw",
                                     err |-> ExhaustedError(
                                                sharedRetry.maxRetries, error)]]
                              /\ iPc' = [iPc EXCEPT ![i] = "done"]
                              /\ iWaits' = iWaits
                         ELSE /\ iOut' = iOut
                              /\ iPc' = [iPc EXCEPT ![i] = "waiting"]
                              /\ iWaits' = [iWaits EXCEPT ![i] =
                                    Append(@, locals.delay)]
    /\ UNCHANGED <<iTask, sharedRegistry, sharedRetry, concurrentFrame>>

\* the timer of invocation i fires: delay *= backoffFactor; attempt++
TimerFires(i) ==
    /\ iPc[i] = "waiting"
    /\ iLocals' = [iLocals EXCEPT
          ![CallLocals(i)].delay = NextDelay(@, sharedRetry.backoffFactor),
          ![CallLocals(i)].attempt = @ + 1]
    /\ iPc' = [iPc EXCEPT ![i] = "attempting"]
    /\ UNCHANGED <<iTask, iSeen, iWaits, iOut, sharedRegistry, sharedRetry,
                   concurrentFrame>>

NextConcurrent ==
    \E i \in Invocations :
       \/ BeginExecute(i)
       \/ SettleExecute(i)
       \/ BeginRequest(i)
       \/ AttemptSettles(i)
       \/ TimerFires(i)

SpecConcurrent == InitConcurrent /\ [][NextConcurrent]_vars

(***************************************************************************)
(* Tool invocation properties (Spec)                                       *)
(***************************************************************************)
\* the call named a registered tool and a registered operation of it
RegisteredOperationCalled ==
    /\ pc # "idle"
    /\ GetTool(toolName)
    /\ args.t = "object"
    /\ args.operation.t = "string"
    /\ args.operation.s \in Range(OperationNames(toolName))

\* the value given under <op>Params violates op's declared schema: it is
\* present and not an object, or an object the strict schema rejects
ParamsViolateSchema ==
    /\ args.params # JUndef
    /\ ZodStrictObjectIssues(Schema(toolName, args.operation.s), args.params) # <<>>

\* C1: whenever a registered operation is called with <op>Params violating
\* its schema, the handler is not invoked and execute returns a result with
\* isError true that lists at least one field violation.
C1_InvalidParamsNeverReachHandler ==
    (RegisteredOperationCalled /\ ParamsViolateSchema)
       => /\ pc = "done"
          /\ handlerCalls = <<>>
          /\ execOut.kind = "result"
          /\ execOut.isError
          /\ Len(execOut.details) >= 1

\* the call named a registered tool and a string that is not one of its
\* registered operations
UnregisteredOperationCalled ==
    /\ pc = "done"
    /\ GetTool(toolName)
    /\ args.t = "object"
    /\ args.operation.t = "string"
    /\ args.operation.s \notin Range(OperationNames(toolName))

\* C2: execute with an operation string that was never registered (names
\* inherited by every object included) throws a Validation error whose
\* message lists the tool's registered operation names as registered.
C2_UnknownOperationListsOperations ==
    UnregisteredOperationCalled
       => /\ execOut.kind = "throw"
          /\ execOut.err.cls = "McpError"
          /\ execOut.err.code = "InvalidParams"
          /\ errorLog # <<>>
          /\ errorLog[Len(errorLog)].category = "validation"
          /\ Contains(Get(execOut.err.message),
                      Join(OperationNames(toolName), ", "))

\* schema validation of the call's arguments failed
ValidationFailed ==
    \/ BaseSchemaIssues(args) # <<>>
    \/ /\ args.operation.s \in Range(OperationNames(toolName))
       /\ ZodStrictObjectIssues(Schema(toolName, args.operation.s),
                                OperationParams(args)) # <<>>

\* the API client getter or the upstream call inside the handler rejected
UpstreamFailed == upstream.kind \in {"apiClient", "reject"}

\* C3: through the CallTool handler, a parameter-validation failure is
\* returned as a result with isError true and never thrown, and an upstream
\* failure inside a handler is thrown as a McpError and never returned.
C3_ValidationSoftUpstreamHard ==
    (pc = "done" /\ entry = "callTool" /\ GetTool(toolName))
       => /\ ValidationFailed
             => (finalOut.kind = "result" /\ finalOut.isError)
          /\ UpstreamFailed
             => (finalOut.kind = "throw" /\ finalOut.err.cls = "McpError")

C3_Witness ==
    /\ pc = "done" /\ entry = "callTool"
    /\ upstream.kind = "reject" /\ upstream.err = NullValue
    /\ handlerCalls # <<>>
    /\ finalOut.kind = "throw" /\ finalOut.err.cls = "McpError"

\* C4: a call naming a tool the registry does not hold ends in a thrown
\* not-found error at either entry point, with no tool executed and no
\* result object returned.
C4_UnknownToolHardNotFound ==
    (pc = "done" /\ ~GetTool(toolName))
       => /\ finalOut.kind = "throw"
          /\ finalOut.err.cls = "McpError"
          /\ finalOut.err.code = "MethodNotFound"
          /\ handlerCalls = <<>>

(***************************************************************************)
(* Handler properties (Spec)                                               *)
(***************************************************************************)
\* the workItems create handler reached its upstream call
CreateSent ==
    /\ pc = "done" /\ toolName = "workItems"
    /\ sent.handler = "createWorkItem"

PatchPaths == [i \in DOMAIN sent.document |-> sent.document[i].path]

\* the paths a document holds when the optional fields count as given
PathsFor(description, assignedTo) ==
    <<"/fields/System.Title">>
    \o (IF description THEN <<"/fields/System.Description">> ELSE <<>>)
    \o (IF assignedTo THEN <<"/fields/System.AssignedTo">> ELSE <<>>)

C19_PullRequestNotFound ==
    (/\ pc = "done" /\ toolName = "pullRequests"
     /\ sent.handler = "getPullRequest"
     /\ upstream.kind = "reject"
     /\ StatusCodeOf(upstream.err) = Some(404))
       => /\ execOut.kind = "throw"
          /\ execOut.err.cls = "McpError"
          /\ errorLog # <<>>
          /\ errorLog[Len(errorLog)].category = "not_found"
          /\ Contains(Get(execOut.err.message),
                      <<ToString(validParams.f["pullRequestId"].n)>>)

(***************************************************************************)
(* Credential confidentiality (SpecRetry)                                  *)
(***************************************************************************)
\* the text shows the access token or the raw Authorization header
ShowsCredential(text) ==
    \/ Contains(text, <<AccessToken>>)
    \/ Contains(text, AuthorizationHeader)

\* C20: neither the access token nor the raw Authorization header appears
\* in any line the transport client logs or in the message of the error it
\* returns to the caller, on success and on every failure path.
C20_NoCredentialInOutput ==
    /\ \A i \in DOMAIN rLog : ~ShowsCredential(rLog[i])
    /\ rOut.kind = "throw" => ~ShowsCredential(Get(rOut.err.message))
    /\ \A i \in DOMAIN errorLog : ~ShowsCredential(errorLog[i].message)

(***************************************************************************)
(* Pagination properties (SpecPage)                                        *)
(***************************************************************************)
\* C11: for every input, normalizePaginationParams returns a maxResults
\* in the range 1..100.
C11_MaxResultsInRange ==
    pPc = "paged" => pNorm.maxResults \in 1..PaginationMaxResults

\* C12: normalizePaginationParams yields 100 when more than 100 is
\* requested, the default 25 when maxResults is 0 or absent, and returns the
\* continuationToken unchanged, or the empty string when it is absent.
C12_NormalizedValues ==
    pPc = "paged"
       => /\ (IsSome(pParams.maxResults) /\ Get(pParams.maxResults) > 100)
             => pNorm.maxResults = 100
          /\ (pParams.maxResults \in {None, Some(0)})
             => pNorm.maxResults = 25
          /\ IsSome(pParams.continuationToken)
             => pNorm.continuationToken = Get(pParams.continuationToken)
          /\ pParams.continuationToken = None
             => pNorm.continuationToken = <<>>

C12_Witness ==
    /\ pPc = "paged"
    /\ pParams.maxResults = Some(500) /\ pNorm.maxResults = 100
    /\ pParams.continuationToken = Some(<<"a", "b">>)

\* pages is an initial part of list
IsPrefix(pages, list) ==
    Len(pages) <= Len(list) /\ SubSeq(list, 1, Len(pages)) = pages

\* the number of calls within which a session over the list ends when every
\* page but the last carries at least one item
CallsNeeded == IF Len(pList) = 0 THEN 1 ELSE Len(pList)

\* C13: a session that starts without a token and feeds each returned token
\* back receives the items of the list in order, none skipped or repeated,
\* and ends with a result that has hasMore false, no token, and all items
\* delivered.
C13_PagesReconstructList ==
    (pPc = "paged" /\ pFromStart)
       => /\ IsPrefix(pPages, pList)
          /\ pCalls >= CallsNeeded
             => (~pResult.hasMore /\ pResult.continuationToken = None
                   /\ pPages = pList)

\* C14: in every list result hasMore is true exactly when a token is
\* present, and an empty upstream collection gives hasMore false and no
\* token whatever maxResults and continuationToken were passed.
C14_HasMoreIffToken ==
    pPc = "paged"
       => /\ pResult.hasMore <=> IsSome(pResult.continuationToken)
          /\ pList = <<>>
             => (~pResult.hasMore /\ pResult.continuationToken = None)

\* C15: decoding never crashes: decodeContinuationToken and
\* parseAdoContinuationToken either return decoded data or throw an
\* InvalidParams McpError; nothing else escapes.
C15_DecodeNeverCrashes ==
    tPc = "done"
       => \/ tOut.kind = "return"
          \/ /\ tOut.kind = "throw"
             /\ tOut.err.cls = "McpError"
             /\ tOut.err.code = "InvalidParams"

(***************************************************************************)
(* Registry properties (SpecRegistry)                                      *)
(***************************************************************************)
\* the last registerTool call offered a name that was already registered
DuplicateOffered ==
    /\ regOut # "none"
    /\ MapHas(regPrev, regCalls[Len(regCalls)].name)

\* C16: registering a tool whose name equals that of an already registered
\* tool fails with an error and leaves the earlier tool in place.
C16_DuplicateRegistrationFails ==
    DuplicateOffered
       => /\ regOut = "throw"
          /\ regTools = regPrev

\* the tools the registry holds, in the order they were registered
HeldTools ==
    SelectSeq(regCalls, LAMBDA t : MapHas(regTools, t.name)
                                     /\ MapGet(regTools, t.name) = t.id)

\* C17: getAllToolDefinitions returns one definition per registered tool in
\* registration order, no two with the same name, and getTool is defined
\* exactly for the names returned.
C17_DefinitionsInRegistrationOrder ==
    IsSome(regListed)
       => LET listed == Get(regListed)
          IN  /\ listed = [i \in DOMAIN HeldTools |-> DefinitionOf(HeldTools[i])]
              /\ \A i, j \in DOMAIN listed :
                    listed[i].name = listed[j].name => i = j
              /\ \A t \in OfferedTools \cup Range(CoreTools(Len(RegisteredTools))) :
                    MapHas(regTools, t.name)
                       <=> \E i \in DOMAIN listed : listed[i].name = t.name

(***************************************************************************)
(* Claims about the transport retry loop (checked under SpecRetry)         *)
(***************************************************************************)
RECURSIVE Pow(_, _)
Pow(b, e) == IF e = 0 THEN 1 ELSE b * Pow(b, e - 1)

FailedWith(i, statuses) ==
    /\ attempts[i].outcome.kind = "http"
    /\ Get(attempts[i].outcome.status) \in statuses

\* network errors / timeouts, 5xx and 429: the transient failures
IsTransient(i) ==
    \/ attempts[i].outcome.kind = "network"
    \/ /\ attempts[i].outcome.kind = "http"
       /\ \/ Get(attempts[i].outcome.status) >= 500
          \/ Get(attempts[i].outcome.status) = 429

\* attempt i was followed by a retry (a delay was started after it)
Retried(i) == Len(delays) >= i

\* C5: an attempt failing with 401, 403 or 400 ends the call at once: it is
\* the last attempt, no delay is started after it, and its own error is the
\* one thrown; as the first attempt it is the only one, for every maxRetries
C5_AuthAndBadRequestNotRetried ==
    \A i \in 1..Len(attempts) :
        FailedWith(i, {400, 401, 403}) =>
            /\ i = Len(attempts)
            /\ rPc = "done"
            /\ rOut = [kind |-> "throw", err |-> attempts[i].err]
            /\ Len(delays) = i - 1
            /\ (i = 1 => delays = <<>>)

\* C5 witness: with maxRetries = 3 the first attempt failed with 401 and the
\* call is over
C5_Witness ==
    /\ rPc = "done"
    /\ retryCfg.maxRetries = 3
    /\ Len(attempts) = 1
    /\ FailedWith(1, {401})
    /\ rOut.kind = "throw"

\* the call returned after k failing attempts and one successful attempt
ReturnedAfterRetries ==
    /\ rPc = "done"
    /\ rOut.kind = "return"
    /\ Len(attempts) >= 1
    /\ attempts[Len(attempts)].outcome.kind = "success"

GeometricDelays ==
    /\ Len(delays) = Len(attempts) - 1
    /\ \A i \in 1..Len(delays) :
          delays[i] = retryCfg.delayMs * Pow(retryCfg.backoffFactor, i - 1)

AllAttemptsTransient ==
    /\ rPc = "done"
    /\ retryCfg.maxRetries >= 1
    /\ Len(attempts) >= 1
    /\ \A i \in 1..Len(attempts) : IsTransient(i)

C8_Original ==
    \A i \in 1..Len(attempts) :
        /\ (attempts[i].outcome.kind = "http"
              /\ Get(attempts[i].outcome.status) \in 400..499
              /\ Get(attempts[i].outcome.status) # 429)
           => (~Retried(i) /\ rPc = "done")
        /\ Retried(i) => (IsTransient(i) \/ attempts[i].outcome.kind = "other")

\* C8 amended: 400, 401 and 403 are terminal and never retried; transient
\* failures, failures that are no HTTP response at all, and the 4xx statuses
\* request() maps to InternalError (409 here) are retried whenever an attempt
\* remains
C8_TerminalAndRetried ==
    \A i \in 1..Len(attempts) :
        /\ FailedWith(i, {400, 401, 403}) => (~Retried(i) /\ rPc = "done")
        /\ (/\ i < retryCfg.maxRetries
            /\ \/ IsTransient(i)
               \/ attempts[i].outcome.kind = "other"
               \/ FailedWith(i, {409}))
           => Retried(i)

\* C8 witness: a 409 on the first attempt was followed by a retry
C8_Witness ==
    /\ Len(attempts) >= 2
    /\ FailedWith(1, {409})
    /\ Len(delays) >= 1

(***************************************************************************)
(* Claims about the error classifier (checked under SpecClassify)          *)
(***************************************************************************)
\* the classification table of the specification, status -> kind
ExpectedCategory(status) ==
    CASE status = None -> "unknown"
      [] status = Some(401) -> "authentication"
      [] status = Some(403) -> "authorization"
      [] status = Some(404) -> "not_found"
      [] status = Some(400) -> "validation"
      [] status = Some(429) -> "rate_limit"
      [] OTHER -> IF Get(status) >= 500 THEN "service_unavailable" ELSE "unknown"

CategoryPrefix(category, operation) ==
    CASE category = "authentication" -> <<"Authentication failed: ">>
      [] category = "authorization" -> <<"Authorization failed: ">>
      [] category = "not_found" -> <<"Resource not found: ">>
      [] category = "validation" -> <<"Validation failed: ">>
      [] category = "rate_limit" -> <<"Rate limit exceeded: ">>
      [] category = "service_unavailable" -> <<"Service unavailable: ">>
      [] OTHER -> <<"Error during ", operation, ": ">>

CategorySuffix(category) ==
    CASE category = "authentication" -> <<". Please check your credentials.">>
      [] category = "authorization" ->
           <<". You don't have permission to perform this operation.">>
      [] category = "not_found" ->
           <<". Please check that the requested resource exists.">>
      [] category = "validation" -> <<". Please check your input parameters.">>
      [] category = "rate_limit" -> <<". Please try again later.">>
      [] category = "service_unavailable" -> <<". Please try again later.">>
      [] OTHER -> <<>>

\* C9: whenever handleApiError returns, the category it logs is the one the
\* table gives for the raw failure's status code (401 authentication, 403
\* authorization, 404 not_found, 400 validation, 429 rate_limit, >= 500
\* service_unavailable, anything else or no status unknown), and the user
\* message is the extracted message wrapped in that category's prefix/suffix.
C9_ClassificationTable ==
    (cPc = "done" /\ ~cOut.threw) =>
        LET expected == ExpectedCategory(StatusCodeOf(cIn.error))
        IN  /\ Len(cOut.log) = 1
            /\ cOut.log[1].category = expected
            /\ Get(cOut.err.message) =
                  CategoryPrefix(expected, cIn.operation)
                     \o ExtractMessage(cIn.error) \o CategorySuffix(expected)

\* C9 witness: a 500 (the boundary of the >= 500 row) carried in `status`
\* was classified
C9_Witness ==
    /\ cPc = "done"
    /\ cIn.error.statusCode = None
    /\ cIn.error.status = Some(500)
    /\ cOut.log # <<>>
    /\ cOut.log[1].category = "service_unavailable"

\* C10: handleApiError never throws, whatever the raw error value
C10_NeverThrows == cPc = "done" => ~cOut.threw

(***************************************************************************)
(* Classification properties (Spec)                                        *)
(***************************************************************************)
\* what the API client getter's catch block made of the raw failure
ClientClassified ==
    handleApiError(upstream.err, "ADOApiClient",
                   HandlerContext(toolName, args.operation.s)[3])

\* C21: during one invocation of execute a failure is classified and logged
\* at most once: createError writes at most one log entry, and an error that
\* the API client has classified reaches the caller of execute as it was
\* classified, without a second classification around it.
C21_ClassifiedOnce ==
    pc = "done"
       => /\ Len(errorLog) <= 1
          /\ (upstream.kind = "apiClient" /\ ~ClientClassified.threw)
                => (execOut.kind = "throw" /\ execOut.err = ClientClassified.err)

(***************************************************************************)
(* Definition properties (SpecContract)                                    *)
(***************************************************************************)
\* the names passed to registerOperation so far
RegisteredNames == {etRegs[i].operation : i \in DOMAIN etRegs}

\* the keys of the definition's properties other than "operation"
ParamsKeys(definition) ==
    SelectSeq(ObjectKeys(definition.inputSchema.properties),
              LAMBDA k : k # "operation")

\* C22: the operation enum of getDefinition() is exactly the set of names
\* registered with registerOperation, each once; every registered name has a
\* handler and a schema; and the definition has exactly one <name>Params
\* property per registered name, after any sequence of registerOperation
\* calls, a repeated name included.
C22_DefinitionMatchesRegistrations ==
    IsSome(etDef)
       => LET definition == Get(etDef)
              enum == ReadProperty(definition.inputSchema.properties,
                                   "operation").enum
          IN  /\ Range(enum) = RegisteredNames
              /\ Len(enum) = Cardinality(RegisteredNames)
              /\ \A n \in RegisteredNames :
                    /\ ReadProperty(etTool.operations, n).kind = "function"
                    /\ ReadProperty(etTool.schemas, n).kind = "ZodObject"
              /\ Range(ParamsKeys(definition))
                    = {n \o "Params" : n \in RegisteredNames}
              /\ Len(ParamsKeys(definition)) = Cardinality(RegisteredNames)

\* the primitive type of the values validation accepts for the field
AcceptedType(field) ==
    CHOOSE t \in {"string", "number", "boolean"} :
       \E v \in Candidates(field) :
          v.t = t /\ FieldIssues(field, JObj(field.name :> v)) = <<>>

\* C23: for every operation of every tool of the factory, the parameter
\* schema in the definition agrees with the schema execute validates with: a
\* field is listed as required exactly when validation rejects params that
\* lack it, its declared type is the primitive type validation accepts, and
\* a field with enumerated values lists them.
C23_ContractAgreesWithValidation ==
    (IsSome(etDef) /\ etTool.name # "custom")
       => \A i \in DOMAIN OperationNames(etTool.name) :
             LET operation == OperationNames(etTool.name)[i]
                 schema == Schema(etTool.name, operation)
                 params == ReadProperty(Get(etDef).inputSchema.properties,
                                        operation \o "Params")
             IN  /\ Len(params.properties) = Len(schema)
                 /\ \A j \in DOMAIN schema :
                       /\ params.properties[j].key = schema[j].name
                       /\ schema[j].name \in Range(params.required)
                             <=> FieldIssues(schema[j], JObj(NoProps)) # <<>>
                       /\ params.properties[j].type = AcceptedType(schema[j])
                       /\ schema[j].type = "enum"
                             => params.properties[j].enum = Some(schema[j].values)

(***************************************************************************)
(* Further pagination properties (SpecPage)                                *)
(***************************************************************************)
\* the call carried a continuationToken that parseInt reads no offset from
InvalidTokenPassed ==
    /\ pPc = "paged"
    /\ IsSome(pParams.continuationToken)
    /\ ParseInt(Get(pParams.continuationToken)).nan

\* C24: a list operation given a continuationToken that does not decode to
\* an offset returns what it returns without a token: the first maxResults
\* items, and a next token when more remain.
C24_InvalidTokenStartsAtZero ==
    InvalidTokenPassed
       => pResult = ListPage(pList, PaginationParams(pParams.maxResults, None))

\* the offset the last call started from
StartOffset ==
    IF pNorm.continuationToken # <<>> THEN ParseInt(pNorm.continuationToken)
    ELSE JsNum(0)

\* C29: whenever a list operation returns a continuationToken, the offset
\* the token encodes is strictly greater than the offset the call started
\* from and at most the length of the collection, for every maxResults and
\* token the operation's schema accepts.
C29_TokenAdvances ==
    (pPc = "paged" /\ IsSome(pResult.continuationToken))
       => LET next == ParseInt(Get(pResult.continuationToken))
          IN  /\ ~next.nan /\ ~StartOffset.nan
              /\ next.v > StartOffset.v
              /\ next.v <= Len(pList)

(***************************************************************************)
(* Envelope properties (Spec)                                              *)
(***************************************************************************)
\* C25: execute rejects an arguments object that has a top-level key other
\* than operation and <operation>Params, as the advertised definition's
\* additionalProperties: false says: no handler is invoked and the call ends
\* in an error result or a thrown error.
C25_ExtraTopLevelKeysRejected ==
    (pc # "idle" /\ GetTool(toolName) /\ args.t = "object" /\ args.extra)
       => /\ handlerCalls = <<>>
          /\ pc = "done"
          /\ \/ execOut.kind = "throw"
             \/ execOut.kind = "result" /\ execOut.isError

(***************************************************************************)
(* Termination of a transport call (SpecRetryLive, SpecRetry)              *)
(***************************************************************************)
\* C26: every attempt is bounded by a timeout, so a transport call
\* eventually completes, with success or an error, even when the upstream
\* never responds.
C26_CallCompletes == <>(rPc = "done")

\* the error a finished call reports stems from its last attempt
StemsFromLastAttempt ==
    /\ attempts # <<>>
    /\ \/ rOut.err = attempts[Len(attempts)].err
       \/ rOut.err = ExhaustedError(retryCfg.maxRetries,
                                    attempts[Len(attempts)].err)

\* C28: for every retry configuration that can be loaded, maxRetries = 0
\* included, a transport call that reports a failure has made at least one
\* attempt, and the failure stems from an attempt that was made.
C28_AtLeastOneAttempt ==
    (rPc = "done" /\ rOut.kind = "throw") => StemsFromLastAttempt

\* the value is of the type the field declares
Conforms(field, value) ==
    IF field.type = "enum" THEN value.t = "string" /\ value.s \in field.values
    ELSE value.t = field.type

\* the value is an object with every required field, each given field of
\* its declared type, and no key the schema does not declare
PassesSchema(schema, value) ==
    /\ value.t = "object"
    /\ \A k \in DOMAIN value.f :
          value.f[k] # JUndef => \E i \in DOMAIN schema : schema[i].name = k
    /\ \A i \in DOMAIN schema :
          IF HasProp(value, schema[i].name)
          THEN Conforms(schema[i], value.f[schema[i].name])
          ELSE schema[i].optional

\* C30: execute invokes a handler only for an operation name registered on
\* the tool, invokes that operation's handler and no other, at most once per
\* invocation, with params that passed that operation's schema; for every
\* other input no handler runs.
C30_HandlerOnlyForRegisteredOperation ==
    /\ Len(handlerCalls) <= 1
    /\ \A i \in DOMAIN handlerCalls :
          /\ GetTool(toolName)
          /\ handlerCalls[i].tool = toolName
          /\ args.t = "object" /\ args.operation.t = "string"
          /\ handlerCalls[i].operation = args.operation.s
          /\ handlerCalls[i].operation \in Range(OperationNames(toolName))
          /\ PassesSchema(Schema(toolName, handlerCalls[i].operation),
                          handlerCalls[i].params)
    /\ (pc = "done" /\ ~RegisteredOperationCalled) => handlerCalls = <<>>

C30_Witness ==
    /\ pc = "done"
    /\ toolName = "workItems" /\ args.operation.s = "create"
    /\ Len(handlerCalls) = 1
    /\ handlerCalls[1].operation = "create"
    /\ HasProp(handlerCalls[1].params, "assignedTo")
    /\ execOut.kind = "result" /\ ~execOut.isError

(***************************************************************************)
(* Independence of concurrent invocations (SpecConcurrent)                 *)
(***************************************************************************)
\* C27: invocations in flight at the same time are independent: no step
\* writes the registry, the tools' maps or the client configuration, and
\* under every interleaving each invocation has the completion, and each
\* transport call the delays, that it has running alone against the same
\* upstream answers.
C27_InvocationsIndependent ==
    /\ sharedRegistry = ConstructedRegistry
    /\ sharedRetry = SharedRetryConfig
    /\ \A i \in Invocations :
          /\ iTask[i].kind = "execute"
                => iOut[i] = ExecuteAlone(iTask[i], iSeen[i])
          /\ iTask[i].kind = "request"
                => /\ iOut[i] = RequestAlone(sharedRetry, iSeen[i], 1,
                                             sharedRetry.delayMs, <<>>).out
                   /\ iWaits[i] = RequestAlone(sharedRetry, iSeen[i], 1,
                                               sharedRetry.delayMs, <<>>).delays

\* invocation 1 finished after three attempts and two delays while
\* invocation 2, begun in between, is still in flight
C27_Witness ==
    /\ iTask[1].kind = "request" /\ iPc[1] = "done"
    /\ Len(iSeen[1]) = 3 /\ iWaits[1] = <<1000, 2000>>
    /\ iTask[2].kind = "request" /\ iPc[2] = "waiting"
    /\ iLocals[CallLocals(2)].attempt = 1

====
